---- MODULE Spec2Model ----
(***************************************************************************)
(* The RealSense L515 scripts as one state machine.  Each script is a      *)
(* straight-line sequence of SDK calls inside try/except/finally blocks;   *)
(* script selects which one runs, pc is its position, and every SDK call   *)
(* (an external collaborator) either returns or raises.                    *)
(***************************************************************************)
EXTENDS Integers, Sequences, FiniteSets, TLC

VARIABLES script,    \* which script file is being executed
          pc,        \* position in that script
          pipeline,  \* the rs.pipeline() object bound to the name `pipeline`
          pipe,      \* the rs.pipeline() object bound to the name `pipe`
          leaked,    \* pipelines that lost their name while their session was live
          i,         \* the counter of the loop being executed (in realsense_preset:
                     \* preset_value)
          devices,   \* len(devices) of the last successful query_devices (-1: none)
          err,       \* the exception on its way to a handler or a finally clause,
                     \* named by the call that raised it ("": none); an error of
                     \* stop() that ends the script stays recorded
          out,       \* the printed reports the properties speak about, in order
          ret,       \* the value returned by main, in realsense_preset by
                     \* set_sensor_preset ("none", "True", "False")
          frames,    \* what the last wait_for_frames gave: "none" before the first,
                     \* "error", "received" (a set the script does not look into)
                     \* or the content of the frame set
          device,    \* the name `device` is bound (config.resolve succeeded)
          argv,      \* sys.argv: the program name followed by the arguments
          options,   \* the number of sensor.set_option calls made
          key,       \* the value the name `key` holds (-1 before any key)
          system,    \* the value platform.system() returned ("" before the call)
          choice,    \* the answer to the reset prompt, as its sequence of
                     \* characters (empty before the prompt)
          commands   \* the commands handed to run_command, in order, each with
                     \* whether subprocess.run returned (ok) or raised

vars == <<script, pc, pipeline, pipe, leaked, i, devices, err, out, ret, frames, device,
          argv, options, key, system, choice, commands>>

\* ---------------------------------------------------------------- bounds
MaxDevices == 2      \* query_devices returns 0..MaxDevices devices
MaxLoop == 3         \* iterations explored of the unbounded `while True` loops
MaxArgs == 2         \* command-line arguments given to realsense_preset.py

\* ------------------------------------------------------- program constants
SensorIndices == 10  \* advanced_diagnostic Method 2: range(10)
UsbControllers == 10 \* advanced_diagnostic Method 4: range(10)
FrameCount == 5      \* camera_diagnostic: for i in range(5)
max_tries == 5       \* direct_camera_access: max_tries = 5

Scripts == {"advanced_diagnostic", "camera_diagnostic", "direct_camera_access",
            "photo1", "video_viewer_with_photo_saver", "black_white",
            "realsense_preset", "trial", "test", "usb_recovery"}

\* advanced_diagnostic.main, the list of stream combinations of Method 3
stream_configs == << {"depth", "color"}, {"depth"}, {"color"}, {"infrared"} >>

\* ------------------------------------------------------------ SDK objects
\* a name that is not bound to any pipeline object yet
NoPipeline ==
  [made |-> FALSE, started |-> FALSE, startCalls |-> 0, stopCalls |-> 0,
   waits |-> 0, cfg |-> 0]

\* rs.pipeline(): a fresh, not started pipeline; cfg is the Method 3 attempt
\* that created it (0 elsewhere)
NewPipeline(c) == [NoPipeline EXCEPT !.made = TRUE, !.cfg = c]

\* the session of a pipeline is live: start() returned and stop() was not
\* invoked on it yet
Active(p) == p.started /\ p.stopCalls = 0

\* pipeline.start(config): returns (ok) or raises
StartCall(p, ok) ==
  [p EXCEPT !.startCalls = @ + 1, !.started = (@ \/ ok)]

\* pipeline.stop(): the session is torn down, whether stop returns or raises
StopCall(p) == [p EXCEPT !.stopCalls = @ + 1]

\* pipeline.wait_for_frames(...)
WaitCall(p) == [p EXCEPT !.waits = @ + 1]

\* a name is bound to another object: the object it named is dropped, and
\* counts as leaked when its session is still live
Rebind(old) == leaked + (IF Active(old) THEN 1 ELSE 0)

\* print(...)
Say(m, n) == Append(out, [msg |-> m, arg |-> n])

\* the outcome of one wait_for_frames: an error, or a frame set holding a
\* depth frame and/or a color frame
FrameSets == {"error", "both", "depth_only", "color_only", "neither"}

\* ord(c) of the keys the viewers test for
ord(c) == CASE c = "n" -> 110 [] c = "q" -> 113 [] c = "s" -> 115

\* cv2.waitKey: -1 when no key was pressed, else the key code, which on some
\* platforms carries modifier bits above the low byte
WaitKeys == {-1, 27, ord("n"), ord("q"), ord("s"), 27 + 256, ord("s") + 256}

\* key & 0xFF
LowByte(k) == k % 256

\* the command lines realsense_preset.py is run with: up to MaxArgs arguments,
\* each a preset name or some other word
ArgWords == {"no_ambient_light", "low_ambient_light", "max_range", "short_range",
             "unknown"}

CommandLines ==
  {<<"realsense_preset.py">> \o a : a \in UNION {[1..n -> ArgWords] : n \in 0..MaxArgs}}

\* -------------------------------------------------------------------- Init
Entry(s) ==
  CASE s = "advanced_diagnostic" -> "ad_version"
    [] s = "camera_diagnostic" -> "cd_enumerate"
    [] s = "direct_camera_access" -> "da_new"
    [] s = "photo1" -> "ph_enumerate"
    [] s = "video_viewer_with_photo_saver" -> "vv_resolve"
    [] s = "black_white" -> "bw_enumerate"
    [] s = "realsense_preset" -> "rp_args"
    [] s = "trial" -> "tr_enumerate"
    [] s = "test" -> "ts_start"
    [] s = "usb_recovery" -> "ur_platform"

Init ==
  /\ script \in Scripts
  /\ pc = Entry(script)
  /\ pipeline = NoPipeline
  /\ pipe = NoPipeline
  /\ leaked = 0
  /\ i = 0
  /\ devices = -1
  /\ err = ""
  /\ out = << >>
  /\ ret = "none"
  /\ frames = "none"
  /\ device = FALSE
  /\ argv \in IF script = "realsense_preset" THEN CommandLines ELSE {<<script>>}
  /\ options = 0
  /\ key = -1
  /\ system = ""
  /\ choice = << >>
  /\ commands = << >>

\* =================================================== advanced_diagnostic.py
\* lines 59-62: rs.get_librealsense_version() in its own try/except
AD_Version ==
  /\ pc = "ad_version"
  /\ \E ok \in BOOLEAN : TRUE
  /\ pc' = "ad_usb"
  /\ UNCHANGED <<script, argv, options, key, system, choice, commands, pipeline, pipe, leaked, i, devices, err, out, ret, frames, device>>

\* check_usb_devices: the PowerShell listing, any error caught and printed
check_usb_devices ==
  /\ pc = "ad_usb"
  /\ \E windows \in BOOLEAN, ok \in BOOLEAN : TRUE
  /\ pc' = "ad_m1"
  /\ UNCHANGED <<script, argv, options, key, system, choice, commands, pipeline, pipe, leaked, i, devices, err, out, ret, frames, device>>

\* a Method 1 that takes a failed enumeration for an empty device list
AD_Method1_EmptyOnError ==
  /\ pc = "ad_m1"
  /\ \/ \E n \in 0..MaxDevices :
          /\ devices' = n
          /\ out' = Say("Devices found", n)
     \/ /\ devices' = devices
        /\ out' = Say("Devices found", 0)
  /\ pc' = "ad_m2"
  /\ UNCHANGED <<script, argv, options, key, system, choice, commands, pipeline, pipe, leaked, i, err, ret, frames, device>>

\* Method 1, lines 75-87: rs.context(), query_devices, the per-device
\* get_info calls (each in its own try/except)
AD_Method1 ==
  /\ pc = "ad_m1"
  /\ \/ \E n \in 0..MaxDevices :
          /\ devices' = n
          /\ out' = Say("Devices found", n)
     \/ /\ devices' = devices
        /\ out' = Say("Error in standard query", 0)
  /\ pc' = "ad_m2"
  /\ UNCHANGED <<script, argv, options, key, system, choice, commands, pipeline, pipe, leaked, i, err, ret, frames, device>>

\* Method 2, lines 91-101: rs.context() and range(10) get_sensor probes,
\* every error of a probe swallowed
AD_Method2 ==
  /\ pc = "ad_m2"
  /\ \E ctxOk \in BOOLEAN, found \in SUBSET (0..(SensorIndices - 1)) : TRUE
  /\ pc' = "ad_m3_new"
  /\ i' = 1
  /\ UNCHANGED <<script, argv, options, key, system, choice, commands, pipeline, pipe, leaked, devices, err, out, ret, frames, device>>

\* a Method 3 that creates its pipeline for the first attempt only
AD_M3_New_Reuse ==
  /\ pc = "ad_m3_new"
  /\ i <= Len(stream_configs)
  /\ out' = Say("Attempt", i)
  /\ \E ok \in BOOLEAN :
       IF ok THEN /\ pipeline' = IF i = 1 THEN NewPipeline(i)
                                          ELSE [pipeline EXCEPT !.cfg = i]
                  /\ leaked' = IF i = 1 THEN Rebind(pipeline) ELSE leaked
                  /\ \/ pc' = "ad_m3_enable" /\ err' = err
                     \/ pc' = "ad_unhandled" /\ err' = "config"
             ELSE /\ pipeline' = pipeline
                  /\ leaked' = leaked
                  /\ pc' = "ad_unhandled"
                  /\ err' = "pipeline"
  /\ UNCHANGED <<script, argv, options, key, system, choice, commands, pipe, i, devices, ret, frames, device>>

\* Method 3, lines 114-117: the head of the for loop creates the attempt's
\* pipeline and config, outside the try: an error of rs.pipeline() or of
\* rs.config() leaves main
AD_M3_New ==
  /\ pc = "ad_m3_new"
  /\ i <= Len(stream_configs)
  /\ out' = Say("Attempt", i)
  /\ \E ok \in BOOLEAN :
       IF ok THEN /\ pipeline' = NewPipeline(i)
                  /\ leaked' = Rebind(pipeline)
                  /\ \/ pc' = "ad_m3_enable" /\ err' = err
                     \/ pc' = "ad_unhandled" /\ err' = "config"
             ELSE /\ pipeline' = pipeline
                  /\ leaked' = leaked
                  /\ pc' = "ad_unhandled"
                  /\ err' = "pipeline"
  /\ UNCHANGED <<script, argv, options, key, system, choice, commands, pipe, i, devices, ret, frames, device>>

\* lines 121-131: config.enable_stream for each stream of the combination
AD_M3_Enable ==
  /\ pc = "ad_m3_enable"
  /\ \E ok \in BOOLEAN :
       IF ok THEN pc' = "ad_m3_start" /\ err' = err
             ELSE pc' = "ad_m3_except" /\ err' = "enable_stream"
  /\ UNCHANGED <<script, argv, options, key, system, choice, commands, pipeline, pipe, leaked, i, devices, out, ret, frames, device>>

\* lines 134-136: pipeline.start(config)
AD_M3_Start ==
  /\ pc = "ad_m3_start"
  /\ \E ok \in BOOLEAN :
       /\ pipeline' = StartCall(pipeline, ok)
       /\ IF ok THEN pc' = "ad_m3_info" /\ err' = err
                     /\ out' = Say("Pipeline started successfully", i)
                ELSE pc' = "ad_m3_except" /\ err' = "start" /\ out' = out
  /\ UNCHANGED <<script, argv, options, key, system, choice, commands, pipe, leaked, i, devices, ret, frames, device>>

\* lines 139-141: profile.get_device() and the two get_info calls
AD_M3_Info ==
  /\ pc = "ad_m3_info"
  /\ \E ok \in BOOLEAN :
       IF ok THEN pc' = "ad_m3_wait" /\ err' = err
             ELSE pc' = "ad_m3_except" /\ err' = "get_info"
  /\ UNCHANGED <<script, argv, options, key, system, choice, commands, pipeline, pipe, leaked, i, devices, out, ret, frames, device>>

\* lines 144-149: pipeline.wait_for_frames(5000), then the SUCCESS line
AD_M3_Wait ==
  /\ pc = "ad_m3_wait"
  /\ pipeline' = WaitCall(pipeline)
  /\ \E f \in FrameSets :
       /\ frames' = (IF f = "error" THEN "error" ELSE "received")
       /\ IF f # "error"
          THEN pc' = "ad_m3_stop" /\ err' = err
               /\ out' = Say("SUCCESS: This configuration works", i)
          ELSE pc' = "ad_m3_except" /\ err' = "wait_for_frames" /\ out' = out
  /\ UNCHANGED <<script, argv, options, key, system, choice, commands, pipe, leaked, i, devices, ret, device>>

\* AD_M3_Stop without the break of line 157: the loop goes on to the next
\* configuration
AD_M3_Stop_NoBreak ==
  /\ pc = "ad_m3_stop"
  /\ pipeline' = StopCall(pipeline)
  /\ \E ok \in BOOLEAN :
       IF ok THEN /\ pc' = IF i + 1 <= Len(stream_configs) THEN "ad_m3_new" ELSE "ad_m4"
                  /\ i' = i + 1
                  /\ err' = err
                  /\ out' = Say("WORKING CONFIGURATION", i)
             ELSE pc' = "ad_m3_except" /\ i' = i /\ err' = "stop" /\ out' = out
  /\ UNCHANGED <<script, argv, options, key, system, choice, commands, pipe, leaked, devices, ret, frames, device>>

\* lines 150-157: pipeline.stop() inside the try, the WORKING CONFIGURATION
\* report and break
AD_M3_Stop ==
  /\ pc = "ad_m3_stop"
  /\ pipeline' = StopCall(pipeline)
  /\ \E ok \in BOOLEAN :
       IF ok THEN pc' = "ad_m4" /\ err' = err
                  /\ out' = Say("WORKING CONFIGURATION", i)
             ELSE pc' = "ad_m3_except" /\ err' = "stop" /\ out' = out
  /\ UNCHANGED <<script, argv, options, key, system, choice, commands, pipe, leaked, i, devices, ret, frames, device>>

\* AD_M3_Except without the pipeline.stop() of lines 161-164
AD_M3_Except_NoStop ==
  /\ pc = "ad_m3_except"
  /\ out' = Say("Failed: " \o err, i)
  /\ err' = ""
  /\ i' = i + 1
  /\ pc' = IF i + 1 <= Len(stream_configs) THEN "ad_m3_new" ELSE "ad_m4"
  /\ UNCHANGED <<script, argv, options, key, system, choice, commands, pipeline, pipe, leaked, devices, ret, frames, device>>

\* lines 159-164: the except clause prints the failure, calls
\* pipeline.stop() swallowing its error, and the loop goes on
AD_M3_Except ==
  /\ pc = "ad_m3_except"
  /\ out' = Say("Failed: " \o err, i)
  /\ pipeline' = StopCall(pipeline)
  /\ \E ok \in BOOLEAN : TRUE
  /\ err' = ""
  /\ i' = i + 1
  /\ pc' = IF i + 1 <= Len(stream_configs) THEN "ad_m3_new" ELSE "ad_m4"
  /\ UNCHANGED <<script, argv, options, key, system, choice, commands, pipe, leaked, devices, ret, frames, device>>

\* Method 4, lines 168-170 and 183-184: rs.context() under the outer try
AD_M4_Context ==
  /\ pc = "ad_m4"
  /\ \E ok \in BOOLEAN :
       IF ok THEN pc' = "ad_m4_cfg" /\ i' = 0 /\ out' = out
             ELSE pc' = "ad_done" /\ i' = i
                  /\ out' = Say("Error in specific attributes method", 0)
  /\ UNCHANGED <<script, argv, options, key, system, choice, commands, pipeline, pipe, leaked, devices, err, ret, frames, device>>

\* lines 171-176, 181-182: rs.config(), enable_device_from_file and
\* rs.pipeline(); an error is swallowed and the next controller is tried
AD_M4_Config ==
  /\ pc = "ad_m4_cfg"
  /\ i < UsbControllers
  /\ \E ok \in BOOLEAN :
       IF ok THEN /\ pipeline' = NewPipeline(0)
                  /\ leaked' = Rebind(pipeline)
                  /\ pc' = "ad_m4_start"
                  /\ i' = i
             ELSE /\ pipeline' = pipeline
                  /\ leaked' = leaked
                  /\ i' = i + 1
                  /\ pc' = IF i + 1 < UsbControllers THEN "ad_m4_cfg" ELSE "ad_done"
  /\ UNCHANGED <<script, argv, options, key, system, choice, commands, pipe, devices, err, out, ret, frames, device>>

\* lines 177-178, 181-182: pipeline.start(config)
AD_M4_Start ==
  /\ pc = "ad_m4_start"
  /\ \E ok \in BOOLEAN :
       /\ pipeline' = StartCall(pipeline, ok)
       /\ IF ok THEN pc' = "ad_m4_stop" /\ i' = i
                ELSE /\ i' = i + 1
                     /\ pc' = IF i + 1 < UsbControllers THEN "ad_m4_cfg" ELSE "ad_done"
  /\ UNCHANGED <<script, argv, options, key, system, choice, commands, pipe, leaked, devices, err, out, ret, frames, device>>

\* lines 179-182: pipeline.stop() then break; an error of stop is swallowed
\* by the bare except and the next controller is tried
AD_M4_Stop ==
  /\ pc = "ad_m4_stop"
  /\ pipeline' = StopCall(pipeline)
  /\ \E ok \in BOOLEAN :
       IF ok THEN pc' = "ad_done" /\ i' = i
             ELSE /\ i' = i + 1
                  /\ pc' = IF i + 1 < UsbControllers THEN "ad_m4_cfg" ELSE "ad_done"
  /\ UNCHANGED <<script, argv, options, key, system, choice, commands, pipe, leaked, devices, err, out, ret, frames, device>>

\* lines 186-197: the closing header, the recommendations and input()
AD_Complete ==
  /\ pc = "ad_done"
  /\ out' = Append(Say("DIAGNOSTIC COMPLETE", 0),
                   [msg |-> "TROUBLESHOOTING RECOMMENDATIONS", arg |-> 0])
  /\ pc' = "exit"
  /\ UNCHANGED <<script, argv, options, key, system, choice, commands, pipeline, pipe, leaked, i, devices, err, ret, frames, device>>

\* lines 199-204: the handler around main() of the script
AD_Unhandled ==
  /\ pc = "ad_unhandled"
  /\ out' = Say("Unhandled error: " \o err, 0)
  /\ err' = ""
  /\ pc' = "exit"
  /\ UNCHANGED <<script, argv, options, key, system, choice, commands, pipeline, pipe, leaked, i, devices, ret, frames, device>>

AD_Next ==
  \/ AD_Version \/ check_usb_devices \/ AD_Method1 \/ AD_Method2
  \/ AD_M3_New \/ AD_M3_Enable \/ AD_M3_Start \/ AD_M3_Info \/ AD_M3_Wait
  \/ AD_M3_Stop \/ AD_M3_Except
  \/ AD_M4_Context \/ AD_M4_Config \/ AD_M4_Start \/ AD_M4_Stop
  \/ AD_Complete \/ AD_Unhandled

\* ===================================================== camera_diagnostic.py
\* CD_Enumerate without the return of line 52: the run goes on after the
\* troubleshooting steps
CD_Enumerate_NoReturn ==
  /\ pc = "cd_enumerate"
  /\ \/ \E n \in 0..MaxDevices :
          /\ devices' = n
          /\ err' = err
          /\ out' = IF n = 0
                    THEN Append(Say("ERROR: No Intel RealSense devices detected", 0),
                                [msg |-> "Troubleshooting steps", arg |-> 0])
                    ELSE Say("Success! Found devices", n)
          /\ pc' = "cd_devices"
     \/ /\ devices' = devices
        /\ err' = "query_devices"
        /\ out' = out
        /\ pc' = "cd_unhandled"
  /\ UNCHANGED <<script, argv, options, key, system, choice, commands, pipeline, pipe, leaked, i, ret, frames, device>>

\* lines 36-54: rs.context() and query_devices(), not inside any try of
\* main; zero devices prints the troubleshooting steps and returns
CD_Enumerate ==
  /\ pc = "cd_enumerate"
  /\ \/ \E n \in 0..MaxDevices :
          /\ devices' = n
          /\ err' = err
          /\ IF n = 0
             THEN /\ out' = Append(Say("ERROR: No Intel RealSense devices detected", 0),
                                   [msg |-> "Troubleshooting steps", arg |-> 0])
                  /\ pc' = "exit"
             ELSE /\ out' = Say("Success! Found devices", n)
                  /\ pc' = "cd_devices"
     \/ /\ devices' = devices
        /\ err' = "query_devices"
        /\ out' = out
        /\ pc' = "cd_unhandled"
  /\ UNCHANGED <<script, argv, options, key, system, choice, commands, pipeline, pipe, leaked, i, ret, frames, device>>

\* lines 57-108: the per-device report, each device in its own try/except
CD_Devices ==
  /\ pc = "cd_devices"
  /\ \E failing \in SUBSET (1..devices) : TRUE
  /\ pc' = "cd_setup"
  /\ UNCHANGED <<script, argv, options, key, system, choice, commands, pipeline, pipe, leaked, i, devices, err, out, ret, frames, device>>

\* lines 114-127: devices[0].get_info, rs.pipeline(), rs.config() under the
\* outer try; enable_device in its own try/except
CD_Setup ==
  /\ pc = "cd_setup"
  /\ \/ /\ pipeline' = NewPipeline(0)
        /\ leaked' = Rebind(pipeline)
        /\ \E okConfig \in BOOLEAN :
             IF okConfig THEN pc' = "cd_enable" /\ err' = err
                         ELSE pc' = "cd_outer_except" /\ err' = "config"
     \/ /\ pipeline' = pipeline
        /\ leaked' = leaked
        /\ pc' = "cd_outer_except"
        /\ \E e \in {"get_info", "pipeline"} : err' = e
  /\ UNCHANGED <<script, argv, options, key, system, choice, commands, pipe, i, devices, out, ret, frames, device>>

\* lines 130-131: the two config.enable_stream calls
CD_Enable ==
  /\ pc = "cd_enable"
  /\ \E ok \in BOOLEAN :
       IF ok THEN pc' = "cd_start" /\ err' = err
             ELSE pc' = "cd_except" /\ err' = "enable_stream"
  /\ UNCHANGED <<script, argv, options, key, system, choice, commands, pipeline, pipe, leaked, i, devices, out, ret, frames, device>>

\* lines 133-135: pipeline.start(config)
CD_Start ==
  /\ pc = "cd_start"
  /\ \E ok \in BOOLEAN :
       /\ pipeline' = StartCall(pipeline, ok)
       /\ IF ok THEN pc' = "cd_info" /\ err' = err
                     /\ out' = Say("Pipeline started successfully", 0)
                ELSE pc' = "cd_except" /\ err' = "start" /\ out' = out
  /\ UNCHANGED <<script, argv, options, key, system, choice, commands, pipe, leaked, i, devices, ret, frames, device>>

\* lines 138-142: profile.get_device() and get_info, then the loop begins
CD_Info ==
  /\ pc = "cd_info"
  /\ \E ok \in BOOLEAN :
       IF ok THEN pc' = "cd_wait" /\ err' = err /\ i' = 1
             ELSE pc' = "cd_except" /\ err' = "get_info" /\ i' = i
  /\ UNCHANGED <<script, argv, options, key, system, choice, commands, pipeline, pipe, leaked, devices, out, ret, frames, device>>

\* CD_Wait without the inner try/except of lines 145-161: an error of
\* wait_for_frames goes to the except clause of the stream test
CD_Wait_NoInnerTry ==
  /\ pc = "cd_wait"
  /\ i <= FrameCount
  /\ pipeline' = WaitCall(pipeline)
  /\ \E f \in FrameSets, okData \in BOOLEAN :
       /\ frames' = f
       /\ IF f = "error" \/ (f = "both" /\ i = FrameCount /\ ~okData)
          THEN out' = out /\ pc' = "cd_except" /\ err' = "wait_for_frames"
          ELSE /\ err' = err
               /\ LET said == Say(IF f = "both"
                                  THEN "Success! Received depth and color frames"
                                  ELSE "Warning: Missing frame", i)
                  IN  IF i < FrameCount
                      THEN out' = said /\ pc' = "cd_wait"
                      ELSE out' = Append(said, [msg |-> "Stream test PASSED", arg |-> 0])
                           /\ pc' = "cd_finally"
  /\ i' = i + 1
  /\ UNCHANGED <<script, argv, options, key, system, choice, commands, pipe, leaked, devices, ret, device>>

\* lines 143-165: one iteration of the range(5) loop: wait_for_frames(1000)
\* under the inner try, the report of the iteration, sleep; after the
\* fifth iteration the PASSED line
CD_Wait ==
  /\ pc = "cd_wait"
  /\ i <= FrameCount
  /\ pipeline' = WaitCall(pipeline)
  /\ \E f \in FrameSets, okData \in BOOLEAN :
       /\ frames' = f
       /\ LET line == IF f = "error" THEN "Error waiting for frame"
                      ELSE IF f = "both"
                           THEN (IF i = FrameCount /\ ~okData
                                 THEN "Error waiting for frame"
                                 ELSE "Success! Received depth and color frames")
                           ELSE "Warning: Missing frame"
              said == Say(line, i)
          IN  IF i < FrameCount
              THEN out' = said /\ pc' = "cd_wait"
              ELSE out' = Append(said, [msg |-> "Stream test PASSED", arg |-> 0])
                   /\ pc' = "cd_finally"
  /\ i' = i + 1
  /\ UNCHANGED <<script, argv, options, key, system, choice, commands, pipe, leaked, devices, err, ret, device>>

\* lines 167-168: the except clause of the stream test
CD_Except ==
  /\ pc = "cd_except"
  /\ out' = Say("Failed to start stream: " \o err, 0)
  /\ err' = ""
  /\ pc' = "cd_finally"
  /\ UNCHANGED <<script, argv, options, key, system, choice, commands, pipeline, pipe, leaked, i, devices, ret, frames, device>>

\* a stream test whose finally clause is not under the outer try
CD_Finally_NoOuterTry ==
  /\ pc = "cd_finally"
  /\ pipeline' = StopCall(pipeline)
  /\ \E ok \in BOOLEAN :
       IF ok THEN /\ out' = Append(Say("Stopping pipeline...", 0),
                                   [msg |-> "Pipeline stopped.", arg |-> 0])
                  /\ pc' = "cd_complete"
                  /\ err' = err
             ELSE /\ out' = Say("Stopping pipeline...", 0)
                  /\ pc' = "cd_unhandled"
                  /\ err' = "stop"
  /\ UNCHANGED <<script, argv, options, key, system, choice, commands, pipe, leaked, i, devices, ret, frames, device>>

\* lines 170-173: the finally clause calls pipeline.stop() unguarded; its
\* error goes to the outer except
CD_Finally ==
  /\ pc = "cd_finally"
  /\ pipeline' = StopCall(pipeline)
  /\ \E ok \in BOOLEAN :
       IF ok THEN /\ out' = Append(Say("Stopping pipeline...", 0),
                                   [msg |-> "Pipeline stopped.", arg |-> 0])
                  /\ pc' = "cd_complete"
                  /\ err' = err
             ELSE /\ out' = Say("Stopping pipeline...", 0)
                  /\ pc' = "cd_outer_except"
                  /\ err' = "stop"
  /\ UNCHANGED <<script, argv, options, key, system, choice, commands, pipe, leaked, i, devices, ret, frames, device>>

\* lines 175-176: the outer except of the stream test
CD_OuterExcept ==
  /\ pc = "cd_outer_except"
  /\ out' = Say("Error during stream test: " \o err, 0)
  /\ err' = ""
  /\ pc' = "cd_complete"
  /\ UNCHANGED <<script, argv, options, key, system, choice, commands, pipeline, pipe, leaked, i, devices, ret, frames, device>>

\* lines 178-182: the closing report and input()
CD_Complete ==
  /\ pc = "cd_complete"
  /\ out' = Say("Diagnostic complete", 0)
  /\ pc' = "exit"
  /\ UNCHANGED <<script, argv, options, key, system, choice, commands, pipeline, pipe, leaked, i, devices, err, ret, frames, device>>

\* lines 184-189: the handler around main() of the script
CD_Unhandled ==
  /\ pc = "cd_unhandled"
  /\ out' = Say("Unhandled error: " \o err, 0)
  /\ err' = ""
  /\ pc' = "exit"
  /\ UNCHANGED <<script, argv, options, key, system, choice, commands, pipeline, pipe, leaked, i, devices, ret, frames, device>>

CD_Next ==
  \/ CD_Enumerate \/ CD_Devices \/ CD_Setup \/ CD_Enable \/ CD_Start \/ CD_Info
  \/ CD_Wait \/ CD_Except \/ CD_Finally \/ CD_OuterExcept \/ CD_Complete
  \/ CD_Unhandled

\* ================================================== direct_camera_access.py
\* lines 27-29: rs.pipeline() and rs.config() of approach 1, inside its try
DA_New ==
  /\ pc = "da_new"
  /\ \E ok \in BOOLEAN :
       IF ok THEN /\ pipeline' = NewPipeline(0)
                  /\ leaked' = Rebind(pipeline)
                  /\ pc' = "da_enumerate"
                  /\ err' = err
             ELSE /\ pipeline' = pipeline
                  /\ leaked' = leaked
                  /\ pc' = "da_except"
                  /\ err' = "pipeline"
  /\ UNCHANGED <<script, argv, options, key, system, choice, commands, pipe, i, devices, out, ret, frames, device>>

\* lines 32-38, 50-59: rs.context(), query_devices(), and the branch on
\* len(devices); the device report has its own try/except
DA_Enumerate ==
  /\ pc = "da_enumerate"
  /\ \/ \E n \in 0..MaxDevices :
          /\ devices' = n
          /\ err' = err
          /\ IF n = 0
             THEN /\ out' = Say("No devices detected by context.query_devices()", 0)
                  /\ pc' = "da_forced_new"
             ELSE /\ out' = Say("Found devices", n)
                  /\ pc' = "da_enable"
     \/ /\ devices' = devices
        /\ err' = "query_devices"
        /\ out' = out
        /\ pc' = "da_except"
  /\ UNCHANGED <<script, argv, options, key, system, choice, commands, pipeline, pipe, leaked, i, ret, frames, device>>

\* line 40: pipe = rs.pipeline() of the forced discovery, outside its try
DA_ForcedNew ==
  /\ pc = "da_forced_new"
  /\ \E ok \in BOOLEAN :
       IF ok THEN /\ pipe' = NewPipeline(0)
                  /\ leaked' = Rebind(pipe)
                  /\ pc' = "da_forced_start"
                  /\ err' = err
             ELSE /\ pipe' = pipe
                  /\ leaked' = leaked
                  /\ pc' = "da_except"
                  /\ err' = "pipeline"
  /\ UNCHANGED <<script, argv, options, key, system, choice, commands, pipeline, i, devices, out, ret, frames, device>>

\* lines 41-46, 48-49: rs.config(), enable_stream(depth), pipe.start(cfg)
DA_ForcedStart ==
  /\ pc = "da_forced_start"
  /\ \/ /\ pipe' = pipe
        /\ out' = Say("Forced discovery failed: enable_stream", 0)
        /\ pc' = "da_enable"
     \/ \E ok \in BOOLEAN :
          /\ pipe' = StartCall(pipe, ok)
          /\ IF ok THEN /\ out' = Say("Device found through forced pipeline start!", 0)
                        /\ pc' = "da_forced_stop"
                   ELSE /\ out' = Say("Forced discovery failed: start", 0)
                        /\ pc' = "da_enable"
  /\ UNCHANGED <<script, argv, options, key, system, choice, commands, pipeline, leaked, i, devices, err, ret, frames, device>>

\* DA_ForcedStop without the pipe.stop() of line 47
DA_ForcedStop_NoStop ==
  /\ pc = "da_forced_stop"
  /\ pc' = "da_enable"
  /\ UNCHANGED <<script, argv, options, key, system, choice, commands, pipeline, pipe, leaked, i, devices, err, out, ret, frames, device>>

\* lines 47-49: pipe.stop() of the forced discovery
DA_ForcedStop ==
  /\ pc = "da_forced_stop"
  /\ pipe' = StopCall(pipe)
  /\ \E ok \in BOOLEAN :
       out' = IF ok THEN out ELSE Say("Forced discovery failed: stop", 0)
  /\ pc' = "da_enable"
  /\ UNCHANGED <<script, argv, options, key, system, choice, commands, pipeline, leaked, i, devices, err, ret, frames, device>>

\* lines 62-64: the two config.enable_stream calls of approach 1
DA_Enable ==
  /\ pc = "da_enable"
  /\ \E ok \in BOOLEAN :
       IF ok THEN pc' = "da_start" /\ err' = err
             ELSE pc' = "da_except" /\ err' = "enable_stream"
  /\ UNCHANGED <<script, argv, options, key, system, choice, commands, pipeline, pipe, leaked, i, devices, out, ret, frames, device>>

\* lines 67-69: pipeline.start(config)
DA_Start ==
  /\ pc = "da_start"
  /\ \E ok \in BOOLEAN :
       /\ pipeline' = StartCall(pipeline, ok)
       /\ IF ok THEN pc' = "da_info" /\ err' = err
                     /\ out' = Say("Pipeline started successfully", 1)
                ELSE pc' = "da_except" /\ err' = "start" /\ out' = out
  /\ UNCHANGED <<script, argv, options, key, system, choice, commands, pipe, leaked, i, devices, ret, frames, device>>

\* lines 72-79: profile.get_device(), get_info, tries = 0
DA_Info ==
  /\ pc = "da_info"
  /\ \E ok \in BOOLEAN :
       IF ok THEN pc' = "da_wait" /\ err' = err /\ i' = 0
             ELSE pc' = "da_except" /\ err' = "get_info" /\ i' = i
  /\ UNCHANGED <<script, argv, options, key, system, choice, commands, pipeline, pipe, leaked, devices, out, ret, frames, device>>

\* an approach 1 loop that tests `tries <= max_tries`
DA_Wait_OneMore ==
  /\ pc = "da_wait"
  /\ i < max_tries + 1
  /\ i' = i + 1
  /\ pipeline' = WaitCall(pipeline)
  /\ \E f \in FrameSets :
       /\ frames' = f
       /\ IF f = "error"
          THEN out' = out /\ err' = "wait_for_frames" /\ pc' = "da_inner_except"
          ELSE IF f = "both"
          THEN /\ out' = Say("Successfully received frames!", i + 1)
               /\ err' = err
               /\ pc' = "da_save"
          ELSE /\ out' = Say("Missing frames, retrying...", i + 1)
               /\ err' = err
               /\ pc' = IF i + 1 < max_tries + 1 THEN "da_wait" ELSE "da_giveup"
  /\ UNCHANGED <<script, argv, options, key, system, choice, commands, pipe, leaked, devices, ret, device>>

\* lines 80-90, 102-103, 107: while tries < max_tries: tries += 1,
\* wait_for_frames(5000) under the inner try, the branch on the frame set
DA_Wait ==
  /\ pc = "da_wait"
  /\ i < max_tries
  /\ i' = i + 1
  /\ pipeline' = WaitCall(pipeline)
  /\ \E f \in FrameSets :
       /\ frames' = f
       /\ IF f = "error"
          THEN out' = out /\ err' = "wait_for_frames" /\ pc' = "da_inner_except"
          ELSE IF f = "both"
          THEN /\ out' = Say("Successfully received frames!", i + 1)
               /\ err' = err
               /\ pc' = "da_save"
          ELSE /\ out' = Say("Missing frames, retrying...", i + 1)
               /\ err' = err
               /\ pc' = IF i + 1 < max_tries THEN "da_wait" ELSE "da_giveup"
  /\ UNCHANGED <<script, argv, options, key, system, choice, commands, pipe, leaked, devices, ret, device>>

\* lines 104-107: the inner except of the loop reports the error of the
\* iteration (of wait_for_frames, of the save, or of stop), sleeps, and the
\* loop condition is tested again
DA_InnerExcept ==
  /\ pc = "da_inner_except"
  /\ out' = Say("Error waiting for frames: " \o err, i)
  /\ err' = ""
  /\ pc' = IF i < max_tries THEN "da_wait" ELSE "da_giveup"
  /\ UNCHANGED <<script, argv, options, key, system, choice, commands, pipeline, pipe, leaked, i, devices, ret, frames, device>>

\* lines 93-99: the sample image is saved; an error of the save is caught
\* by the inner except of the loop
DA_Save ==
  /\ pc = "da_save"
  /\ \E ok \in BOOLEAN :
       IF ok THEN /\ out' = Say("CONNECTION SUCCESSFUL", i)
                  /\ err' = err
                  /\ pc' = "da_success_stop"
             ELSE /\ out' = out
                  /\ err' = "imwrite"
                  /\ pc' = "da_inner_except"
  /\ UNCHANGED <<script, argv, options, key, system, choice, commands, pipeline, pipe, leaked, i, devices, ret, frames, device>>

\* lines 100-101: pipeline.stop() and return True, both inside the inner
\* try of the loop: an error of stop is caught by the inner except
DA_SuccessStop ==
  /\ pc = "da_success_stop"
  /\ pipeline' = StopCall(pipeline)
  /\ \E ok \in BOOLEAN :
       IF ok THEN /\ ret' = "True"
                  /\ err' = err
                  /\ pc' = "da_returned"
             ELSE /\ ret' = ret
                  /\ err' = "stop"
                  /\ pc' = "da_inner_except"
  /\ UNCHANGED <<script, argv, options, key, system, choice, commands, pipe, leaked, i, devices, out, frames, device>>

\* lines 109-110: after the loop, pipeline.stop() inside the outer try
DA_GiveUp ==
  /\ pc = "da_giveup"
  /\ out' = Say("Failed to get frames after multiple attempts", 0)
  /\ pipeline' = StopCall(pipeline)
  /\ \E ok \in BOOLEAN :
       IF ok THEN pc' = "da2_new" /\ err' = err
             ELSE pc' = "da_except" /\ err' = "stop"
  /\ UNCHANGED <<script, argv, options, key, system, choice, commands, pipe, leaked, i, devices, ret, frames, device>>

\* lines 112-117: the except clause of approach 1: pipeline.stop() with its
\* error swallowed (a NameError when `pipeline` was never bound)
DA_Except ==
  /\ pc = "da_except"
  /\ out' = Say("Connection failed: " \o err, 1)
  /\ pipeline' = IF pipeline.made THEN StopCall(pipeline) ELSE pipeline
  /\ \E ok \in BOOLEAN : TRUE
  /\ err' = ""
  /\ pc' = "da2_new"
  /\ UNCHANGED <<script, argv, options, key, system, choice, commands, pipe, leaked, i, devices, ret, frames, device>>

\* lines 122-127: rs.pipeline(), rs.config(), enable_stream(depth)
DA2_New ==
  /\ pc = "da2_new"
  /\ \/ /\ pipeline' = pipeline
        /\ leaked' = leaked
        /\ pc' = "da2_except"
        /\ err' = "pipeline"
     \/ /\ pipeline' = NewPipeline(0)
        /\ leaked' = Rebind(pipeline)
        /\ \E ok \in BOOLEAN :
             IF ok THEN pc' = "da2_start" /\ err' = err
                   ELSE pc' = "da2_except" /\ err' = "enable_stream"
  /\ UNCHANGED <<script, argv, options, key, system, choice, commands, pipe, i, devices, out, ret, frames, device>>

\* lines 129-131: pipeline.start(config)
DA2_Start ==
  /\ pc = "da2_start"
  /\ \E ok \in BOOLEAN :
       /\ pipeline' = StartCall(pipeline, ok)
       /\ IF ok THEN pc' = "da2_wait" /\ err' = err
                     /\ out' = Say("Pipeline started successfully", 2)
                ELSE pc' = "da2_except" /\ err' = "start" /\ out' = out
  /\ UNCHANGED <<script, argv, options, key, system, choice, commands, pipe, leaked, i, devices, ret, frames, device>>

\* lines 133-135: the single wait_for_frames(5000) of approach 2
DA2_Wait ==
  /\ pc = "da2_wait"
  /\ pipeline' = WaitCall(pipeline)
  /\ \E f \in FrameSets :
       /\ frames' = (IF f = "error" THEN "error" ELSE "received")
       /\ IF f # "error"
          THEN pc' = "da2_stop" /\ err' = err /\ out' = Say("Got frames!", 0)
          ELSE pc' = "da2_except" /\ err' = "wait_for_frames" /\ out' = out
  /\ UNCHANGED <<script, argv, options, key, system, choice, commands, pipe, leaked, i, devices, ret, device>>

\* lines 137-139: pipeline.stop(), the success line, return True
DA2_Stop ==
  /\ pc = "da2_stop"
  /\ pipeline' = StopCall(pipeline)
  /\ \E ok \in BOOLEAN :
       IF ok THEN /\ out' = Say("MINIMAL CONFIGURATION WORKED", 0)
                  /\ ret' = "True"
                  /\ pc' = "da_returned"
                  /\ err' = err
             ELSE /\ out' = out
                  /\ ret' = ret
                  /\ pc' = "da2_except"
                  /\ err' = "stop"
  /\ UNCHANGED <<script, argv, options, key, system, choice, commands, pipe, leaked, i, devices, frames, device>>

\* lines 141-166: the except clause of approach 2 (stop with its error
\* swallowed), the advice of approach 3, return False
DA2_Except ==
  /\ pc = "da2_except"
  /\ out' = Say("Minimal configuration failed: " \o err, 0)
  /\ pipeline' = IF pipeline.made THEN StopCall(pipeline) ELSE pipeline
  /\ \E ok \in BOOLEAN : TRUE
  /\ err' = ""
  /\ ret' = "False"
  /\ pc' = "da_returned"
  /\ UNCHANGED <<script, argv, options, key, system, choice, commands, pipe, leaked, i, devices, frames, device>>

\* lines 168-175: the caller of main() reports a False result
DA_Main ==
  /\ pc = "da_returned"
  /\ out' = IF ret = "True" THEN out ELSE Say("All connection attempts failed", 0)
  /\ pc' = "exit"
  /\ UNCHANGED <<script, argv, options, key, system, choice, commands, pipeline, pipe, leaked, i, devices, err, ret, frames, device>>

DA_Next ==
  \/ DA_New \/ DA_Enumerate \/ DA_ForcedNew \/ DA_ForcedStart \/ DA_ForcedStop
  \/ DA_Enable \/ DA_Start \/ DA_Info \/ DA_Wait \/ DA_InnerExcept \/ DA_Save \/ DA_SuccessStop
  \/ DA_GiveUp \/ DA_Except \/ DA2_New \/ DA2_Start \/ DA2_Wait \/ DA2_Stop
  \/ DA2_Except \/ DA_Main

\* ================================================================ photo1.py
\* lines 16-23: rs.pipeline(), rs.config(), rs.context(), query_devices()
\* at module level: an error ends the script with a traceback
PH_Enumerate ==
  /\ pc = "ph_enumerate"
  /\ \/ /\ pipeline' = pipeline /\ leaked' = leaked /\ devices' = devices
        /\ out' = out
        /\ pc' = "crash"
     \/ /\ pipeline' = NewPipeline(0)
        /\ leaked' = Rebind(pipeline)
        /\ \/ /\ devices' = devices /\ out' = out /\ pc' = "crash"
           \/ \E n \in 0..MaxDevices :
                /\ devices' = n
                /\ IF n = 0
                   THEN /\ out' = Say("No RealSense devices detected! Trying alternative methods...", 0)
                        /\ pc' = "ph_alternative"
                   ELSE /\ out' = out
                        /\ pc' = "ph_resolve"
  /\ UNCHANGED <<script, argv, options, key, system, choice, commands, pipe, i, err, ret, frames, device>>

\* lines 26-39: the listing of ctx.devices (not in a try) and the two
\* enable_device attempts with hard-coded ids (errors printed)
PH_Alternative ==
  /\ pc = "ph_alternative"
  /\ \E okList \in BOOLEAN, okFirst \in BOOLEAN, okSecond \in BOOLEAN :
       pc' = IF okList THEN "ph_resolve" ELSE "crash"
  /\ UNCHANGED <<script, argv, options, key, system, choice, commands, pipeline, pipe, leaked, i, devices, err, out, ret, frames, device>>

\* lines 42-51: config.resolve and get_device under a try; on an error the
\* script prints and goes on, leaving `device` unbound
PH_Resolve ==
  /\ pc = "ph_resolve"
  /\ \E ok \in BOOLEAN, okInfo \in BOOLEAN :
       IF ok THEN /\ device' = TRUE
                  /\ out' = IF okInfo THEN Say("Connected to", 0)
                                      ELSE Say("Error resolving pipeline", 0)
             ELSE /\ device' = device
                  /\ out' = Say("Error resolving pipeline", 0)
  /\ pc' = "ph_sensors"
  /\ UNCHANGED <<script, argv, options, key, system, choice, commands, pipeline, pipe, leaked, i, devices, err, ret, frames>>

\* lines 53-60: the loop over device.sensors at module level (a NameError
\* when `device` is unbound), exit(0) without an RGB camera
PH_Sensors ==
  /\ pc = "ph_sensors"
  /\ IF ~device
     THEN pc' = "crash" /\ out' = out /\ err' = "NameError"
     ELSE \E ok \in BOOLEAN, found_rgb \in BOOLEAN :
            IF ~ok THEN pc' = "crash" /\ out' = out /\ err' = "get_info"
            ELSE IF found_rgb THEN pc' = "ph_enable" /\ out' = out /\ err' = err
            ELSE /\ pc' = "exit"
                 /\ err' = err
                 /\ out' = Say("The demo requires Depth camera with Color sensor", 0)
  /\ UNCHANGED <<script, argv, options, key, system, choice, commands, pipeline, pipe, leaked, i, devices, ret, frames, device>>

\* lines 62-63: the two config.enable_stream calls at module level
PH_Enable ==
  /\ pc = "ph_enable"
  /\ \E ok \in BOOLEAN : pc' = IF ok THEN "ph_start" ELSE "crash"
  /\ UNCHANGED <<script, argv, options, key, system, choice, commands, pipeline, pipe, leaked, i, devices, err, out, ret, frames, device>>

\* lines 66-72: pipeline.start(config) under a try; exit(1) on an error
PH_Start ==
  /\ pc = "ph_start"
  /\ \E ok \in BOOLEAN :
       /\ pipeline' = StartCall(pipeline, ok)
       /\ IF ok THEN pc' = "ph_wait" /\ out' = Say("Pipeline started successfully", 0)
                ELSE pc' = "exit" /\ out' = Say("Error starting pipeline", 0)
  /\ i' = 0
  /\ UNCHANGED <<script, argv, options, key, system, choice, commands, pipe, leaked, devices, err, ret, frames, device>>

\* lines 76-88: the head of `while True`: wait_for_frames(5000) under the
\* inner try; an error or an incomplete set prints and continues
PH_Wait ==
  /\ pc = "ph_wait"
  /\ i < MaxLoop
  /\ i' = i + 1
  /\ pipeline' = WaitCall(pipeline)
  /\ \E f \in FrameSets :
       /\ frames' = f
       /\ IF f = "both" THEN pc' = "ph_show" /\ out' = out
          ELSE /\ pc' = "ph_wait"
               /\ out' = Say(IF f = "error" THEN "Error getting frames"
                                            ELSE "Missing frames, retrying...", i + 1)
  /\ UNCHANGED <<script, argv, options, key, system, choice, commands, pipe, leaked, devices, err, ret, device>>

\* lines 90-117: the images are composed and shown, waitKey(0); 'q' or ESC
\* leaves the loop, any other key takes the next photo; an error goes to
\* the finally clause
PH_Show ==
  /\ pc = "ph_show"
  /\ \/ pc' = "ph_finally" /\ err' = "display" /\ key' = key
     \/ \E k \in WaitKeys \ {-1} :
          /\ key' = LowByte(k)
          /\ err' = err
          /\ pc' = IF key' = ord("q") \/ key' = 27 THEN "ph_finally" ELSE "ph_wait"
  /\ UNCHANGED <<script, argv, options, system, choice, commands, pipeline, pipe, leaked, i, devices, out, ret, frames, device>>

\* lines 119-121: finally: pipeline.stop(), unguarded; the script ends with
\* the pending error, or with the error of stop
PH_Finally ==
  /\ pc = "ph_finally"
  /\ pipeline' = StopCall(pipeline)
  /\ \E ok \in BOOLEAN :
       /\ pc' = IF ok /\ err = "" THEN "exit" ELSE "crash"
       /\ err' = IF ok THEN err ELSE "stop"
  /\ UNCHANGED <<script, argv, options, key, system, choice, commands, pipe, leaked, i, devices, out, ret, frames, device>>

PH_Next ==
  \/ PH_Enumerate \/ PH_Alternative \/ PH_Resolve \/ PH_Sensors \/ PH_Enable
  \/ PH_Start \/ PH_Wait \/ PH_Show \/ PH_Finally

\* =========================================== video_viewer_with_photo_saver.py
\* lines 14-21: rs.pipeline(), rs.config(), config.resolve, get_device at
\* module level: an error ends the script with a traceback
VV_Resolve ==
  /\ pc = "vv_resolve"
  /\ \/ /\ pipeline' = pipeline /\ leaked' = leaked /\ device' = device
        /\ pc' = "crash"
     \/ /\ pipeline' = NewPipeline(0)
        /\ leaked' = Rebind(pipeline)
        /\ \E ok \in BOOLEAN :
             IF ok THEN device' = TRUE /\ pc' = "vv_sensors"
                   ELSE device' = device /\ pc' = "crash"
  /\ UNCHANGED <<script, argv, options, key, system, choice, commands, pipe, i, devices, err, out, ret, frames>>

\* lines 23-30: the loop over device.sensors, exit(0) without an RGB camera
VV_Sensors ==
  /\ pc = "vv_sensors"
  /\ \E ok \in BOOLEAN, found_rgb \in BOOLEAN :
       IF ~ok THEN pc' = "crash" /\ out' = out
       ELSE IF found_rgb THEN pc' = "vv_enable" /\ out' = out
       ELSE /\ pc' = "exit"
            /\ out' = Say("The demo requires Depth camera with Color sensor", 0)
  /\ UNCHANGED <<script, argv, options, key, system, choice, commands, pipeline, pipe, leaked, i, devices, err, ret, frames, device>>

\* lines 32-33: the two config.enable_stream calls
VV_Enable ==
  /\ pc = "vv_enable"
  /\ \E ok \in BOOLEAN : pc' = IF ok THEN "vv_start" ELSE "crash"
  /\ UNCHANGED <<script, argv, options, key, system, choice, commands, pipeline, pipe, leaked, i, devices, err, out, ret, frames, device>>

\* line 36: pipeline.start(config) at module level, outside the try
VV_Start ==
  /\ pc = "vv_start"
  /\ \E ok \in BOOLEAN :
       /\ pipeline' = StartCall(pipeline, ok)
       /\ pc' = IF ok THEN "vv_save_dir" ELSE "crash"
  /\ UNCHANGED <<script, argv, options, key, system, choice, commands, pipe, leaked, i, devices, err, out, ret, frames, device>>

\* lines 38-41: os.path.exists / os.makedirs of the save directory, after
\* start and before the try
VV_SaveDir ==
  /\ pc = "vv_save_dir"
  /\ \E exists \in BOOLEAN, ok \in BOOLEAN :
       pc' = IF exists \/ ok THEN "vv_first" ELSE "crash"
  /\ UNCHANGED <<script, argv, options, key, system, choice, commands, pipeline, pipe, leaked, i, devices, err, out, ret, frames, device>>

\* lines 61-78: the first wait_for_frames() inside the try; an incomplete
\* set raises RuntimeError; then the dimensions and the scale bar
VV_First ==
  /\ pc = "vv_first"
  /\ pipeline' = WaitCall(pipeline)
  /\ \E f \in FrameSets, okBar \in BOOLEAN :
       /\ frames' = f
       /\ IF f = "error" THEN pc' = "vv_finally" /\ err' = "wait_for_frames"
          ELSE IF f # "both"
               THEN pc' = "vv_finally" /\ err' = "Could not get frames from the camera"
          ELSE IF ~okBar THEN pc' = "vv_finally" /\ err' = "scale_bar"
          ELSE pc' = "vv_wait" /\ err' = err
  /\ i' = 0
  /\ UNCHANGED <<script, argv, options, key, system, choice, commands, pipe, leaked, devices, out, ret, device>>

\* VV_Wait raising on an incomplete set, as lines 66-67 do for the first one
VV_Wait_RaiseOnIncomplete ==
  /\ pc = "vv_wait"
  /\ i < MaxLoop
  /\ i' = i + 1
  /\ pipeline' = WaitCall(pipeline)
  /\ \E f \in FrameSets :
       /\ frames' = f
       /\ IF f = "error" THEN pc' = "vv_finally" /\ err' = "wait_for_frames"
          ELSE IF f = "both" THEN pc' = "vv_show" /\ err' = err
          ELSE pc' = "vv_finally" /\ err' = "Could not get frames from the camera"
  /\ UNCHANGED <<script, argv, options, key, system, choice, commands, pipe, leaked, devices, out, ret, device>>

\* lines 80-86: the head of `while True`: wait_for_frames(); an incomplete
\* set continues, an error goes to the finally clause
VV_Wait ==
  /\ pc = "vv_wait"
  /\ i < MaxLoop
  /\ i' = i + 1
  /\ pipeline' = WaitCall(pipeline)
  /\ \E f \in FrameSets :
       /\ frames' = f
       /\ IF f = "error" THEN pc' = "vv_finally" /\ err' = "wait_for_frames"
          ELSE IF f = "both" THEN pc' = "vv_show" /\ err' = err
          ELSE pc' = "vv_wait" /\ err' = err
  /\ UNCHANGED <<script, argv, options, key, system, choice, commands, pipe, leaked, devices, out, ret, device>>

\* a viewer whose 's' branch falls into the break of the 'q' branch
VV_Show_SaveLeaves ==
  /\ pc = "vv_show"
  /\ \/ pc' = "vv_finally" /\ err' = "display" /\ out' = out /\ key' = key
     \/ \E k \in WaitKeys, okSave \in BOOLEAN :
          /\ key' = k
          /\ IF LowByte(k) = ord("s")
             THEN IF okSave
                  THEN pc' = "vv_finally" /\ err' = err /\ out' = Say("Image saved", i)
                  ELSE pc' = "vv_finally" /\ err' = "imwrite" /\ out' = out
             ELSE /\ out' = out
                  /\ err' = err
                  /\ pc' = IF LowByte(k) = ord("q") \/ k = 27 THEN "vv_finally"
                                                             ELSE "vv_wait"
  /\ UNCHANGED <<script, argv, options, system, choice, commands, pipeline, pipe, leaked, i, devices, ret, frames, device>>

\* lines 88-117: the images are composed and shown, waitKey(1): 's' saves
\* the image and the loop goes on, 'q' or ESC leaves the loop, anything
\* else goes on; an error goes to the finally clause
VV_Show ==
  /\ pc = "vv_show"
  /\ \/ pc' = "vv_finally" /\ err' = "display" /\ out' = out /\ key' = key
     \/ \E k \in WaitKeys, okSave \in BOOLEAN :
          /\ key' = k
          /\ IF LowByte(k) = ord("s")
             THEN IF okSave
                  THEN pc' = "vv_wait" /\ err' = err /\ out' = Say("Image saved", i)
                  ELSE pc' = "vv_finally" /\ err' = "imwrite" /\ out' = out
             ELSE /\ out' = out
                  /\ err' = err
                  /\ pc' = IF LowByte(k) = ord("q") \/ k = 27 THEN "vv_finally"
                                                             ELSE "vv_wait"
  /\ UNCHANGED <<script, argv, options, system, choice, commands, pipeline, pipe, leaked, i, devices, ret, frames, device>>

\* lines 119-121: finally: pipeline.stop(), unguarded; the script ends with
\* the pending error, or with the error of stop
VV_Finally ==
  /\ pc = "vv_finally"
  /\ pipeline' = StopCall(pipeline)
  /\ \E ok \in BOOLEAN :
       /\ pc' = IF ok /\ err = "" THEN "exit" ELSE "crash"
       /\ err' = IF ok THEN err ELSE "stop"
  /\ UNCHANGED <<script, argv, options, key, system, choice, commands, pipe, leaked, i, devices, out, ret, frames, device>>

VV_Next ==
  \/ VV_Resolve \/ VV_Sensors \/ VV_Enable \/ VV_Start \/ VV_SaveDir \/ VV_First
  \/ VV_Wait \/ VV_Show \/ VV_Finally

\* =========================================================== black_white.py
\* lines 14-22: rs.pipeline(), rs.config(), rs.context(), query_devices();
\* zero devices prints and exit(0)
BW_Enumerate ==
  /\ pc = "bw_enumerate"
  /\ \/ /\ pipeline' = pipeline /\ leaked' = leaked /\ devices' = devices
        /\ out' = out
        /\ pc' = "crash"
     \/ /\ pipeline' = NewPipeline(0)
        /\ leaked' = Rebind(pipeline)
        /\ \/ /\ devices' = devices /\ out' = out /\ pc' = "crash"
           \/ \E n \in 0..MaxDevices :
                /\ devices' = n
                /\ IF n = 0
                   THEN /\ out' = Say("No Intel RealSense devices connected!", 0)
                        /\ pc' = "exit"
                   ELSE /\ out' = Say("Found devices", n)
                        /\ pc' = "bw_resolve"
  /\ UNCHANGED <<script, argv, options, key, system, choice, commands, pipe, i, err, ret, frames, device>>

\* lines 26-38: the device listing, config.resolve and get_device, none of
\* them in a try
BW_Resolve ==
  /\ pc = "bw_resolve"
  /\ \E ok \in BOOLEAN :
       IF ok THEN device' = TRUE /\ pc' = "bw_sensors"
             ELSE device' = device /\ pc' = "crash"
  /\ UNCHANGED <<script, argv, options, key, system, choice, commands, pipeline, pipe, leaked, i, devices, err, out, ret, frames>>

\* lines 40-47: the loop over device.sensors, exit(0) without an RGB camera
BW_Sensors ==
  /\ pc = "bw_sensors"
  /\ \E ok \in BOOLEAN, found_rgb \in BOOLEAN :
       IF ~ok THEN pc' = "crash" /\ out' = out
       ELSE IF found_rgb THEN pc' = "bw_enable" /\ out' = out
       ELSE /\ pc' = "exit"
            /\ out' = Say("The demo requires Depth camera with Color sensor", 0)
  /\ UNCHANGED <<script, argv, options, key, system, choice, commands, pipeline, pipe, leaked, i, devices, err, ret, frames, device>>

\* lines 49-50: the two config.enable_stream calls
BW_Enable ==
  /\ pc = "bw_enable"
  /\ \E ok \in BOOLEAN : pc' = IF ok THEN "bw_start" ELSE "crash"
  /\ UNCHANGED <<script, argv, options, key, system, choice, commands, pipeline, pipe, leaked, i, devices, err, out, ret, frames, device>>

\* line 53: pipeline.start(config) at module level, outside the try
BW_Start ==
  /\ pc = "bw_start"
  /\ \E ok \in BOOLEAN :
       /\ pipeline' = StartCall(pipeline, ok)
       /\ pc' = IF ok THEN "bw_save_dir" ELSE "crash"
  /\ UNCHANGED <<script, argv, options, key, system, choice, commands, pipe, leaked, i, devices, err, out, ret, frames, device>>

\* lines 55-58: os.path.exists / os.makedirs of the save directory, after
\* start and before the try
BW_SaveDir ==
  /\ pc = "bw_save_dir"
  /\ \E exists \in BOOLEAN, ok \in BOOLEAN :
       pc' = IF exists \/ ok THEN "bw_first" ELSE "crash"
  /\ UNCHANGED <<script, argv, options, key, system, choice, commands, pipeline, pipe, leaked, i, devices, err, out, ret, frames, device>>

\* lines 78-102: the first wait_for_frames(5000); an error or an incomplete
\* set is printed and raised again as RuntimeError; then the dimensions
\* and the scale bar
BW_First ==
  /\ pc = "bw_first"
  /\ pipeline' = WaitCall(pipeline)
  /\ \E f \in FrameSets, okBar \in BOOLEAN :
       /\ frames' = f
       /\ IF f # "both"
          THEN /\ pc' = "bw_finally"
               /\ err' = "Failed to get frames from the camera"
               /\ out' = Say("Error getting frames", 0)
          ELSE /\ out' = Say("Successfully retrieved frames from camera!", 0)
               /\ IF okBar THEN pc' = "bw_wait" /\ err' = err
                           ELSE pc' = "bw_finally" /\ err' = "scale_bar"
  /\ i' = 0
  /\ UNCHANGED <<script, argv, options, key, system, choice, commands, pipe, leaked, devices, ret, device>>

\* lines 104-110: the head of `while True`: wait_for_frames(); an incomplete
\* set continues, an error goes to the finally clause
BW_Wait ==
  /\ pc = "bw_wait"
  /\ i < MaxLoop
  /\ i' = i + 1
  /\ pipeline' = WaitCall(pipeline)
  /\ \E f \in FrameSets :
       /\ frames' = f
       /\ IF f = "error" THEN pc' = "bw_finally" /\ err' = "wait_for_frames"
          ELSE IF f = "both" THEN pc' = "bw_show" /\ err' = err
          ELSE pc' = "bw_wait" /\ err' = err
  /\ UNCHANGED <<script, argv, options, key, system, choice, commands, pipe, leaked, devices, out, ret, device>>

\* lines 112-142: the images are composed and shown, waitKey(1): 's' saves
\* the image and the loop goes on, 'q' or ESC leaves the loop, anything
\* else goes on; an error goes to the finally clause
BW_Show ==
  /\ pc = "bw_show"
  /\ \/ pc' = "bw_finally" /\ err' = "display" /\ out' = out /\ key' = key
     \/ \E k \in WaitKeys, okSave \in BOOLEAN :
          /\ key' = k
          /\ IF LowByte(k) = ord("s")
             THEN IF okSave
                  THEN pc' = "bw_wait" /\ err' = err /\ out' = Say("Image saved", i)
                  ELSE pc' = "bw_finally" /\ err' = "imwrite" /\ out' = out
             ELSE /\ out' = out
                  /\ err' = err
                  /\ pc' = IF LowByte(k) = ord("q") \/ k = 27 THEN "bw_finally"
                                                             ELSE "bw_wait"
  /\ UNCHANGED <<script, argv, options, system, choice, commands, pipeline, pipe, leaked, i, devices, ret, frames, device>>

\* lines 144-146: finally: pipeline.stop(), unguarded; the script ends with
\* the pending error, or with the error of stop
BW_Finally ==
  /\ pc = "bw_finally"
  /\ pipeline' = StopCall(pipeline)
  /\ \E ok \in BOOLEAN :
       /\ pc' = IF ok /\ err = "" THEN "exit" ELSE "crash"
       /\ err' = IF ok THEN err ELSE "stop"
  /\ UNCHANGED <<script, argv, options, key, system, choice, commands, pipe, leaked, i, devices, out, ret, frames, device>>

BW_Next ==
  \/ BW_Enumerate \/ BW_Resolve \/ BW_Sensors \/ BW_Enable \/ BW_Start
  \/ BW_SaveDir \/ BW_First \/ BW_Wait \/ BW_Show \/ BW_Finally

\* ====================================================== realsense_preset.py
\* main, lines 24-29: the preset names and their option values
presets ==
  [no_ambient_light |-> 3, low_ambient_light |-> 2, max_range |-> 4, short_range |-> 5]

\* an argument check that only counts the arguments
RP_Args_CountOnly ==
  /\ pc = "rp_args"
  /\ IF Len(argv) # 2
     THEN /\ out' = Append(Say("Usage", 0), [msg |-> "Preset options", arg |-> 0])
          /\ pc' = "exit"
          /\ i' = i
     ELSE /\ out' = out
          /\ pc' = "rp_new"
          /\ i' = IF argv[2] \in DOMAIN presets THEN presets[argv[2]] ELSE 0
  /\ UNCHANGED <<script, argv, options, key, system, choice, commands, pipeline, pipe, leaked, devices, err, ret, frames, device>>

\* lines 31-37: len(sys.argv) != 2 or an unknown name prints the usage and
\* returns
RP_Args ==
  /\ pc = "rp_args"
  /\ IF Len(argv) # 2 \/ argv[2] \notin DOMAIN presets
     THEN /\ out' = Append(Say("Usage", 0), [msg |-> "Preset options", arg |-> 0])
          /\ pc' = "exit"
          /\ i' = i
     ELSE /\ out' = out
          /\ pc' = "rp_new"
          /\ i' = presets[argv[2]]
  /\ UNCHANGED <<script, argv, options, key, system, choice, commands, pipeline, pipe, leaked, devices, err, ret, frames, device>>

\* lines 40-41: rs.pipeline() and rs.config()
RP_New ==
  /\ pc = "rp_new"
  /\ \E ok \in BOOLEAN :
       IF ok THEN /\ pipeline' = NewPipeline(0)
                  /\ leaked' = Rebind(pipeline)
                  /\ pc' = "rp_start"
                  /\ err' = err
             ELSE /\ pipeline' = pipeline
                  /\ leaked' = leaked
                  /\ pc' = "crash"
                  /\ err' = "pipeline"
  /\ UNCHANGED <<script, argv, options, key, system, choice, commands, pipe, i, devices, out, ret, frames, device>>

\* line 44: pipeline.start(config), before the try
RP_Start ==
  /\ pc = "rp_start"
  /\ \E ok \in BOOLEAN :
       /\ pipeline' = StartCall(pipeline, ok)
       /\ pc' = IF ok THEN "rp_device" ELSE "crash"
  /\ UNCHANGED <<script, argv, options, key, system, choice, commands, pipe, leaked, i, devices, err, out, ret, frames, device>>

\* lines 47-48: get_active_profile().get_device() and query_sensors()[0]
RP_Device ==
  /\ pc = "rp_device"
  /\ \E ok \in BOOLEAN :
       IF ok THEN pc' = "rp_preset" /\ err' = err /\ device' = TRUE
             ELSE pc' = "rp_finally" /\ err' = "get_device" /\ device' = device
  /\ UNCHANGED <<script, argv, options, key, system, choice, commands, pipeline, pipe, leaked, i, devices, out, ret, frames>>

\* a set_sensor_preset without the `return False` of the unsupported branch
set_sensor_preset_FallsThrough ==
  /\ pc = "rp_preset"
  /\ \E supports \in {"yes", "no", "error"}, okSet \in BOOLEAN :
       LET result == supports # "error" /\ okSet
           said == IF supports = "no"
                   THEN Say("This sensor does not support visual presets", 0)
                   ELSE out
           said2 == IF result THEN said
                    ELSE Append(said, [msg |-> "Error setting sensor preset", arg |-> 0])
       IN  /\ options' = IF supports # "error" THEN options + 1 ELSE options
           /\ ret' = IF result THEN "True" ELSE "False"
           /\ out' = Append(said2, [msg |-> IF result THEN "Preset applied successfully"
                                                      ELSE "Failed to apply preset",
                                    arg |-> i])
  /\ pc' = "rp_finally"
  /\ UNCHANGED <<script, argv, key, system, choice, commands, pipeline, pipe, leaked, i, devices, err, frames, device>>

\* set_sensor_preset, lines 7-20, and its caller, lines 50-53
set_sensor_preset ==
  /\ pc = "rp_preset"
  /\ \E supports \in {"yes", "no", "error"}, okSet \in BOOLEAN :
       LET result == supports = "yes" /\ okSet
           said == IF supports = "no"
                   THEN Say("This sensor does not support visual presets", 0)
                   ELSE IF result THEN out
                   ELSE Say("Error setting sensor preset", 0)
       IN  /\ options' = IF supports = "yes" THEN options + 1 ELSE options
           /\ ret' = IF result THEN "True" ELSE "False"
           /\ out' = Append(said, [msg |-> IF result THEN "Preset applied successfully"
                                                     ELSE "Failed to apply preset",
                                   arg |-> i])
  /\ pc' = "rp_finally"
  /\ UNCHANGED <<script, argv, key, system, choice, commands, pipeline, pipe, leaked, i, devices, err, frames, device>>

\* lines 55-57: finally: pipeline.stop()
RP_Finally ==
  /\ pc = "rp_finally"
  /\ pipeline' = StopCall(pipeline)
  /\ \E ok \in BOOLEAN :
       /\ pc' = IF ok /\ err = "" THEN "exit" ELSE "crash"
       /\ err' = IF ok THEN err ELSE "stop"
  /\ UNCHANGED <<script, argv, options, key, system, choice, commands, pipe, leaked, i, devices, out, ret, frames, device>>

RP_Next ==
  \/ RP_Args \/ RP_New \/ RP_Start \/ RP_Device \/ set_sensor_preset \/ RP_Finally

\* ================================================================= trial.py
\* lines 3-11: rs.context(), query_devices(), the device listing
TR_Enumerate ==
  /\ pc = "tr_enumerate"
  /\ \/ /\ devices' = devices /\ out' = out /\ pc' = "crash"
     \/ \E n \in 0..MaxDevices, okList \in BOOLEAN :
          /\ devices' = n
          /\ IF n = 0
             THEN out' = Say("No RealSense devices detected", 0) /\ pc' = "exit"
             ELSE /\ out' = Say("Found device", n)
                  /\ pc' = IF okList THEN "tr_new" ELSE "crash"
  /\ UNCHANGED <<script, argv, options, key, system, choice, commands, pipeline, pipe, leaked, i, err, ret, frames, device>>

\* lines 14-16: pipe = rs.pipeline(), rs.config(), enable_stream(depth)
TR_New ==
  /\ pc = "tr_new"
  /\ \/ /\ pipe' = pipe /\ leaked' = leaked /\ pc' = "crash"
     \/ /\ pipe' = NewPipeline(0)
        /\ leaked' = Rebind(pipe)
        /\ \E ok \in BOOLEAN : pc' = IF ok THEN "tr_start" ELSE "crash"
  /\ UNCHANGED <<script, argv, options, key, system, choice, commands, pipeline, i, devices, err, out, ret, frames, device>>

\* lines 18-20: pipe.start(config)
TR_Start ==
  /\ pc = "tr_start"
  /\ \E ok \in BOOLEAN :
       /\ pipe' = StartCall(pipe, ok)
       /\ IF ok THEN pc' = "tr_stop" /\ out' = Say("Pipeline started successfully", 0)
                ELSE pc' = "crash" /\ out' = out
  /\ UNCHANGED <<script, argv, options, key, system, choice, commands, pipeline, leaked, i, devices, err, ret, frames, device>>

\* lines 22-23: pipe.stop()
TR_Stop ==
  /\ pc = "tr_stop"
  /\ pipe' = StopCall(pipe)
  /\ \E ok \in BOOLEAN :
       IF ok THEN pc' = "exit" /\ out' = Say("Pipeline stopped.", 0) /\ err' = err
             ELSE pc' = "crash" /\ out' = out /\ err' = "stop"
  /\ UNCHANGED <<script, argv, options, key, system, choice, commands, pipeline, leaked, i, devices, ret, frames, device>>

TR_Next == TR_Enumerate \/ TR_New \/ TR_Start \/ TR_Stop

\* ================================================================== test.py
\* lines 11-20: rs.context(), rs.config(), rs.pipeline(context),
\* enable_device, enable_stream, then pipe.start() without the config
TS_Start ==
  /\ pc = "ts_start"
  /\ \/ /\ pipe' = pipe /\ leaked' = leaked /\ pc' = "crash"
     \/ /\ leaked' = Rebind(pipe)
        /\ \E okConfig \in BOOLEAN, ok \in BOOLEAN :
             IF okConfig
             THEN /\ pipe' = StartCall(NewPipeline(0), ok)
                  /\ pc' = IF ok THEN "ts_stop" ELSE "crash"
             ELSE /\ pipe' = NewPipeline(0)
                  /\ pc' = "crash"
  /\ UNCHANGED <<script, argv, options, key, system, choice, commands, pipeline, i, devices, err, out, ret, frames, device>>

\* line 21: pipe.stop()
TS_Stop ==
  /\ pc = "ts_stop"
  /\ pipe' = StopCall(pipe)
  /\ \E ok \in BOOLEAN :
       /\ pc' = IF ok THEN "exit" ELSE "crash"
       /\ err' = IF ok THEN err ELSE "stop"
  /\ UNCHANGED <<script, argv, options, key, system, choice, commands, pipeline, leaked, i, devices, out, ret, frames, device>>

TS_Next == TS_Start \/ TS_Stop

\* ========================================================== usb_recovery.py
\* the values of platform.system() explored
Systems == {"Windows", "Linux", "Darwin"}

\* the answers typed at the reset prompt, as sequences of characters
Answers ==
  {<<"y", "e", "s">>, <<"Y", "E", "S">>, <<"Y", "e", "s">>, <<"y", "e", "s", " ">>,
   <<"y">>, <<"n", "o">>, << >>}

\* str.lower(), on the characters the answers are made of
LowerChar(c) == CASE c = "Y" -> "y" [] c = "E" -> "e" [] c = "S" -> "s" [] OTHER -> c

lower(str) == [k \in DOMAIN str |-> LowerChar(str[k])]

\* run_command, lines 24-30: the command is handed to subprocess.run, whose
\* error is caught and returned as text; run_command itself never raises
run_command(log, command, ok) == Append(log, [cmd |-> command, ok |-> ok])

\* lines 116-122: the header, then the platform check: anything but Windows
\* prints the notice and returns
UR_Platform ==
  /\ pc = "ur_platform"
  /\ \E s \in Systems :
       /\ system' = s
       /\ IF s # "Windows"
          THEN out' = Say("This tool currently only supports Windows.", 0) /\ pc' = "exit"
          ELSE out' = out /\ pc' = "ur_admin"
  /\ UNCHANGED <<script, argv, options, key, choice, commands, pipeline, pipe, leaked, i, devices, err, ret, frames, device>>

\* lines 125-134: os.getuid does not exist on Windows, so IsUserAnAdmin is
\* asked (outside the try: its error leaves main); without administrator
\* rights the warning is printed and input() waits (EOFError leaves main)
UR_Admin ==
  /\ pc = "ur_admin"
  /\ \/ /\ pc' = "ur_unhandled" /\ err' = "IsUserAnAdmin" /\ out' = out
     \/ \E is_admin \in BOOLEAN, okInput \in BOOLEAN :
          IF is_admin
          THEN pc' = "ur_drivers" /\ err' = err /\ out' = out
          ELSE /\ out' = Say("WARNING: This script is not running with administrator privileges.", 0)
               /\ IF okInput THEN pc' = "ur_drivers" /\ err' = err
                             ELSE pc' = "ur_unhandled" /\ err' = "input"
  /\ UNCHANGED <<script, argv, options, key, system, choice, commands, pipeline, pipe, leaked, i, devices, ret, frames, device>>

\* lines 67-79 and 137: the two queries of the driver status
check_driver_status_windows ==
  /\ pc = "ur_drivers"
  /\ \E ok1 \in BOOLEAN, ok2 \in BOOLEAN :
       commands' = run_command(run_command(commands, "drivers", ok1), "issues", ok2)
  /\ pc' = "ur_choice"
  /\ UNCHANGED <<script, argv, options, key, system, choice, pipeline, pipe, leaked, i, devices, err, out, ret, frames, device>>

\* a reset prompt that compares the answer with 'yes' as typed
UR_Choice_CaseSensitive ==
  /\ pc = "ur_choice"
  /\ \/ /\ pc' = "ur_unhandled" /\ err' = "input" /\ out' = out /\ choice' = choice
     \/ \E a \in Answers :
          /\ choice' = a
          /\ err' = err
          /\ IF a = <<"y", "e", "s">>
             THEN out' = Say("RESETTING USB DEVICES", 0) /\ pc' = "ur_list"
             ELSE out' = Say("Skipping USB reset.", 0) /\ pc' = "ur_recommend"
  /\ UNCHANGED <<script, argv, options, key, system, commands, pipeline, pipe, leaked, i, devices, ret, frames, device>>

\* lines 140-147: the reset prompt; choice.lower() == 'yes' enters the reset,
\* any other answer prints the skip notice
UR_Choice ==
  /\ pc = "ur_choice"
  /\ \/ /\ pc' = "ur_unhandled" /\ err' = "input" /\ out' = out /\ choice' = choice
     \/ \E a \in Answers :
          /\ choice' = a
          /\ err' = err
          /\ IF lower(a) = <<"y", "e", "s">>
             THEN out' = Say("RESETTING USB DEVICES", 0) /\ pc' = "ur_list"
             ELSE out' = Say("Skipping USB reset.", 0) /\ pc' = "ur_recommend"
  /\ UNCHANGED <<script, argv, options, key, system, commands, pipeline, pipe, leaked, i, devices, ret, frames, device>>

\* reset_usb_devices_windows, lines 36-44: the two listing commands
UR_List ==
  /\ pc = "ur_list"
  /\ \E ok1 \in BOOLEAN, ok2 \in BOOLEAN :
       commands' = run_command(run_command(commands, "list_usb", ok1), "list_realsense", ok2)
  /\ pc' = "ur_disable"
  /\ UNCHANGED <<script, argv, options, key, system, choice, pipeline, pipe, leaked, i, devices, err, out, ret, frames, device>>

\* a reset that gives up when the disable command failed
UR_Disable_GivesUp ==
  /\ pc = "ur_disable"
  /\ \E ok \in BOOLEAN :
       /\ commands' = run_command(commands, "disable", ok)
       /\ pc' = IF ok THEN "ur_enable" ELSE "ur_recommend"
  /\ out' = Say("Disabling RealSense devices...", 0)
  /\ UNCHANGED <<script, argv, options, key, system, choice, pipeline, pipe, leaked, i, devices, err, ret, frames, device>>

\* reset_usb_devices_windows, lines 47-57: the disable command, its output
\* (or error text) printed, the 5 seconds of sleep
UR_Disable ==
  /\ pc = "ur_disable"
  /\ \E ok \in BOOLEAN : commands' = run_command(commands, "disable", ok)
  /\ out' = Say("Disabling RealSense devices...", 0)
  /\ pc' = "ur_enable"
  /\ UNCHANGED <<script, argv, options, key, system, choice, pipeline, pipe, leaked, i, devices, err, ret, frames, device>>

\* reset_usb_devices_windows, lines 59-65: the enable command and the
\* closing line of the reset
UR_Enable ==
  /\ pc = "ur_enable"
  /\ \E ok \in BOOLEAN : commands' = run_command(commands, "enable", ok)
  /\ out' = Append(Say("Re-enabling RealSense devices...", 0),
                   [msg |-> "USB reset procedure completed", arg |-> 0])
  /\ pc' = "ur_recommend"
  /\ UNCHANGED <<script, argv, options, key, system, choice, pipeline, pipe, leaked, i, devices, err, ret, frames, device>>

\* lines 150-156: recommend_fixes, the closing header and the last input()
UR_Recommend ==
  /\ pc = "ur_recommend"
  /\ out' = Append(Say("RECOMMENDATIONS", 0),
                   [msg |-> "RECOVERY PROCEDURE COMPLETE", arg |-> 0])
  /\ \E okInput \in BOOLEAN :
       IF okInput THEN pc' = "exit" /\ err' = err
                  ELSE pc' = "ur_unhandled" /\ err' = "input"
  /\ UNCHANGED <<script, argv, options, key, system, choice, commands, pipeline, pipe, leaked, i, devices, ret, frames, device>>

\* lines 158-163: the handler around main() of the script
UR_Unhandled ==
  /\ pc = "ur_unhandled"
  /\ out' = Say("Unhandled error: " \o err, 0)
  /\ err' = ""
  /\ pc' = "exit"
  /\ UNCHANGED <<script, argv, options, key, system, choice, commands, pipeline, pipe, leaked, i, devices, ret, frames, device>>

UR_Next ==
  \/ UR_Platform \/ UR_Admin \/ check_driver_status_windows \/ UR_Choice
  \/ UR_List \/ UR_Disable \/ UR_Enable \/ UR_Recommend \/ UR_Unhandled

Next ==
  \/ AD_Next \/ CD_Next \/ DA_Next \/ PH_Next \/ VV_Next \/ BW_Next
  \/ RP_Next \/ TR_Next \/ TS_Next \/ UR_Next

Spec == Init /\ [][Next]_vars

\* ================================================================ properties
Ended == pc \in {"exit", "crash"}

\* the number of pipelines whose session is live
ActiveCount ==
  leaked + (IF Active(pipeline) THEN 1 ELSE 0) + (IF Active(pipe) THEN 1 ELSE 0)

\* the positions of the reports with message m in the output
Lines(m) == {k \in DOMAIN out : out[k].msg = m}

Incomplete == {"depth_only", "color_only", "neither"}

\* this step calls wait_for_frames on `pipeline`
WaitStep == pipeline'.waits = pipeline.waits + 1

InMethod3 == script = "advanced_diagnostic" /\ pc \in
  {"ad_m3_new", "ad_m3_enable", "ad_m3_start", "ad_m3_info", "ad_m3_wait",
   "ad_m3_stop", "ad_m3_except"}

\* C1 (as stated): in advanced_diagnostic Method 3 the configurations are
\* attempted in list order, and once a configuration has been reported as a
\* success (the SUCCESS line) no later configuration is attempted.
C1_StopsAtReportedSuccess ==
  script = "advanced_diagnostic" =>
    /\ \A k \in Lines("Attempt") : out[k].arg = Cardinality({j \in Lines("Attempt") : j <= k})
    /\ \A k \in Lines("SUCCESS: This configuration works") :
         \A j \in Lines("Attempt") : j < k

\* C2 (as stated): when a script ends, no pipeline it started is left
\* without a stop() call.
C2_NoLeakAtEnd == Ended => ActiveCount = 0

\* C3: in Method 3, when the next attempt is about to create its pipeline,
\* stop() has been invoked on the pipeline of the attempt before it, and no
\* pipeline of an earlier attempt has a live session during a later attempt.
C3_FailedAttemptStopped ==
  script = "advanced_diagnostic" =>
    /\ leaked = 0
    /\ (pc = "ad_m3_new" /\ i > 1) =>
         pipeline.made /\ pipeline.cfg = i - 1 /\ pipeline.stopCalls >= 1
    /\ (InMethod3 /\ pc # "ad_m3_new") => pipeline.cfg = i

C3_Witness ==
  /\ pc = "ad_m3_new" /\ i = 3
  /\ pipeline.started /\ pipeline.waits = 1 /\ pipeline.stopCalls = 1

\* C4 (as stated): after a candidate whose pipeline.start() returned, no
\* later candidate is attempted.
C4_Original ==
  script = "advanced_diagnostic" =>
    \A k \in Lines("Pipeline started successfully") :
      \A j \in Lines("Attempt") : j < k

\* C4 (amended): after a candidate whose whole attempt (start, device info,
\* wait_for_frames and stop) completed without an error, which is when the
\* WORKING CONFIGURATION report is printed, no later candidate is attempted;
\* and a candidate is abandoned only after an error of one of its steps.
C4_EndsAtWorkingConfiguration ==
  script = "advanced_diagnostic" =>
    /\ \A k \in Lines("WORKING CONFIGURATION") :
         /\ \A j \in Lines("Attempt") : j < k
         /\ ~ \E j \in DOMAIN out : j > k /\ out[j].msg = "Failed: start"
    /\ \A k \in Lines("Attempt") :
         out[k].arg > 1 => \E j \in 1..(k - 1) :
           /\ out[j].arg = out[k].arg - 1
           /\ out[j].msg \in {"Failed: enable_stream", "Failed: start",
                              "Failed: get_info", "Failed: wait_for_frames",
                              "Failed: stop"}

C4_Witness ==
  /\ pc = "exit"
  /\ \E k \in Lines("WORKING CONFIGURATION") : out[k].arg = 2
  /\ \E k \in Lines("Failed: wait_for_frames") : out[k].arg = 1

\* C5 (as stated): an error raised by pipeline.stop() never leaves the stop
\* step: it reaches no surrounding handler and does not end the script.
C5_StopErrorSwallowed == err # "stop"

\* C6 (as stated): in camera_diagnostic, direct_camera_access, photo1,
\* black_white and trial, a run whose enumeration returned zero devices
\* never calls pipeline.start().
C6_Original ==
  (script \in {"camera_diagnostic", "direct_camera_access", "photo1",
               "black_white", "trial"} /\ devices = 0)
    => pipeline.startCalls = 0 /\ pipe.startCalls = 0

\* C6 (amended): in camera_diagnostic, black_white and trial, a run whose
\* enumeration returned zero devices never calls pipeline.start() and
\* creates no further pipeline: the script ends right after its report.
C6_NoStartWithoutDevice ==
  (script \in {"camera_diagnostic", "black_white", "trial"} /\ devices = 0)
    => /\ pipeline.startCalls = 0 /\ pipe.startCalls = 0
       /\ pc = "exit"

C6_Witness ==
  /\ script = "camera_diagnostic" /\ devices = 0 /\ pc = "exit"
  /\ Lines("ERROR: No Intel RealSense devices detected") # {}

\* C7: at most one pipeline has a live session at any time, and start is
\* never called on a pipeline while another pipeline's session is live.
C7_OneActivePipeline ==
  /\ [](ActiveCount <= 1)
  /\ [][(pipeline'.startCalls = pipeline.startCalls + 1 => ~Active(pipe) /\ leaked = 0)
        /\ (pipe'.startCalls = pipe.startCalls + 1 => ~Active(pipeline) /\ leaked = 0)]_vars

C7_Witness ==
  /\ script = "direct_camera_access"
  /\ pipe.started /\ pipe.stopCalls = 1
  /\ Active(pipeline)

\* C8 (as stated): wait_for_frames is only called on a pipeline whose
\* start() has returned and on which stop() has not been invoked.
C8_WaitOnlyWhileActive == [][WaitStep => Active(pipeline)]_vars

\* this step prints the report m of iteration n
Reported(m, n) ==
  Len(out') > Len(out) /\ out'[Len(out) + 1] = [msg |-> m, arg |-> n]

\* what the frame loops do after an iteration that got no usable frame set:
\* the next iteration, or the end of a range(5) / max_tries loop
LoopGoesOn ==
  pc' = CASE pc = "cd_wait" -> (IF i < FrameCount THEN "cd_wait" ELSE "cd_finally")
          [] pc = "da_wait" -> (IF i + 1 < max_tries THEN "da_wait" ELSE "da_giveup")
          [] OTHER -> pc

\* C9 (as stated): whenever a frame set lacks the depth or the color frame,
\* no error is raised, the pipeline is not stopped, and the script polls
\* again (while its loop has iterations left).
C9_Original ==
  [][(WaitStep /\ frames' \in Incomplete) =>
        err' = "" /\ pipeline'.stopCalls = pipeline.stopCalls /\ LoopGoesOn]_vars

\* C9 (amended): the same, for every frame set received inside a frame loop;
\* the first frame set of video_viewer_with_photo_saver and black_white,
\* read before the loop, raises RuntimeError when it is incomplete.
C9_IncompleteSetPollsAgain ==
  [][(WaitStep /\ frames' \in Incomplete) =>
        IF pc \in {"vv_first", "bw_first"}
        THEN err' # "" /\ pc' \in {"vv_finally", "bw_finally"}
        ELSE err' = "" /\ pipeline'.stopCalls = pipeline.stopCalls /\ LoopGoesOn]_vars

C9_Witness ==
  /\ pc = "vv_wait" /\ i = 2
  /\ frames \in Incomplete
  /\ Active(pipeline)

\* C10: in the frame loops of camera_diagnostic, direct_camera_access
\* (approach 1) and photo1, an error of wait_for_frames is reported with its
\* iteration, does not stop the pipeline, and the loop goes on as after any
\* other iteration: the next iteration polls the same pipeline.
C10_WaitErrorKeepsLoop ==
  [][/\ (WaitStep /\ frames' = "error" /\ pc \in {"cd_wait", "ph_wait"}) =>
          /\ pipeline' = WaitCall(pipeline)
          /\ LoopGoesOn
          /\ Reported(IF pc = "cd_wait" THEN "Error waiting for frame"
                                        ELSE "Error getting frames", i' - (IF pc = "cd_wait" THEN 1 ELSE 0))
     /\ (WaitStep /\ frames' = "error" /\ pc = "da_wait") =>
          pipeline' = WaitCall(pipeline) /\ pc' = "da_inner_except"
     /\ (pc = "da_inner_except" /\ err = "wait_for_frames") =>
          /\ pipeline' = pipeline
          /\ Reported("Error waiting for frames: wait_for_frames", i)
          /\ pc' = IF i < max_tries THEN "da_wait" ELSE "da_giveup"]_vars

C10_Witness ==
  /\ pc = "da_wait" /\ i = 1
  /\ frames = "error"
  /\ Active(pipeline)
  /\ Lines("Error waiting for frames: wait_for_frames") # {}

\* the reports of a failed Method 3 attempt, by the call that raised
FailedReports ==
  {"Failed: " \o e : e \in {"enable_stream", "start", "get_info", "wait_for_frames",
                             "stop"}}

\* the Method 3 part of the output: the attempts and their failure reports
Method3Log == SelectSeq(out, LAMBDA r : r.msg = "Attempt" \/ r.msg \in FailedReports)

\* candidate c failed: its failure was reported, or its attempt ended with an
\* error of rs.pipeline() or rs.config()
CandidateFailed(c) ==
  \/ \E k \in DOMAIN out : out[k].msg \in FailedReports /\ out[k].arg = c
  \/ pc = "ad_unhandled" /\ i = c /\ err \in {"pipeline", "config"}

\* C11 (as stated): in advanced_diagnostic Method 3, when all four candidates
\* have failed, each was attempted exactly once and in list order, each
\* attempt is followed by its failure report, no exception has left the loop
\* and the run is in Method 4 or past it.
C11_AllFailedGoesToMethod4 ==
  (/\ script = "advanced_diagnostic"
   /\ \A c \in DOMAIN stream_configs : CandidateFailed(c)
   /\ ~InMethod3) =>
     /\ Len(Method3Log) = 2 * Len(stream_configs)
     /\ \A c \in DOMAIN stream_configs :
          /\ Method3Log[2 * c - 1] = [msg |-> "Attempt", arg |-> c]
          /\ Method3Log[2 * c].msg \in FailedReports
          /\ Method3Log[2 * c].arg = c
     /\ pc \in {"ad_m4", "ad_m4_cfg", "ad_m4_start", "ad_m4_stop", "ad_done", "exit"}
     /\ pc = "exit" => Lines("DIAGNOSTIC COMPLETE") # {}

\* C12 (as stated): whichever SDK calls raise, advanced_diagnostic.main is
\* never left by an exception, and a run that has ended has printed
\* DIAGNOSTIC COMPLETE and the troubleshooting recommendations.
C12_AlwaysReachesComplete ==
  script = "advanced_diagnostic" =>
    /\ pc \notin {"ad_unhandled", "crash"}
    /\ pc = "exit" =>
         /\ Lines("DIAGNOSTIC COMPLETE") # {}
         /\ Lines("TROUBLESHOOTING RECOMMENDATIONS") # {}

\* a script executes its next statement as long as it has one: every SDK call
\* returns or raises
FairSpec == Spec /\ WF_vars(Next)

\* C13: in camera_diagnostic.main, once enumeration has found a device no
\* error of a later call leaves main, and the run reaches the final
\* 'Diagnostic complete' report; with zero devices the run has printed the
\* troubleshooting steps and returned, with no pipeline created.
C13_ReachesDiagnosticComplete ==
  /\ [](script = "camera_diagnostic" =>
          /\ devices >= 1 =>
               /\ pc \notin {"cd_unhandled", "crash"}
               /\ pc = "exit" => Lines("Diagnostic complete") # {}
          /\ devices = 0 =>
               /\ pc = "exit"
               /\ Lines("Troubleshooting steps") # {}
               /\ Lines("Diagnostic complete") = {}
               /\ ~pipeline.made)
  /\ (script = "camera_diagnostic" /\ devices >= 1)
       ~> (pc = "exit" /\ Lines("Diagnostic complete") # {})

C13_Witness ==
  /\ script = "camera_diagnostic" /\ pc = "exit"
  /\ devices >= 1
  /\ Lines("Error during stream test: stop") # {}
  /\ Lines("Diagnostic complete") # {}

\* the report of a successful enumeration that found no device
ZeroDevicesReport ==
  \/ \E k \in DOMAIN out : out[k] = [msg |-> "Devices found", arg |-> 0]
  \/ Lines("ERROR: No Intel RealSense devices detected") # {}

\* the report of an enumeration that raised
FailedEnumerationReport ==
  \/ Lines("Error in standard query") # {}
  \/ Lines("Unhandled error: query_devices") # {}

\* C14: in advanced_diagnostic Method 1 and in camera_diagnostic.main an
\* enumeration that raised is reported, by a report other than the one of
\* zero devices found; the zero-devices report is printed only for an
\* enumeration that returned an empty list.
C14_FailedEnumerationIsNotZeroDevices ==
  script \in {"advanced_diagnostic", "camera_diagnostic"} =>
    /\ ZeroDevicesReport => devices = 0 /\ ~FailedEnumerationReport
    /\ FailedEnumerationReport => devices = -1
    /\ (devices = -1 /\ pc \notin {"ad_version", "ad_usb", "ad_m1", "cd_enumerate"}) =>
         /\ ~ZeroDevicesReport
         /\ FailedEnumerationReport \/ pc = "cd_unhandled"

C14_Witness ==
  /\ script = "advanced_diagnostic" /\ pc = "exit"
  /\ Lines("Error in standard query") # {}
  /\ devices = -1

\* exactly one command-line argument, and it names a preset
ValidArguments == Len(argv) = 2 /\ argv[2] \in DOMAIN presets

\* C15: realsense_preset.main goes on to rs.pipeline() and
\* pipeline.start(config) if and only if exactly one argument is given and it
\* is one of the four preset names; otherwise it prints the usage and the
\* preset options and returns, with no pipeline created and no sensor option
\* set.
C15_PipelineIffValidArgument ==
  /\ [](script = "realsense_preset" =>
          /\ (pipeline.made \/ pipeline.startCalls > 0 \/ options > 0) => ValidArguments
          /\ (~ValidArguments /\ pc # "rp_args") =>
               /\ pc = "exit"
               /\ Lines("Usage") # {} /\ Lines("Preset options") # {}
               /\ ~pipeline.made /\ pipeline.startCalls = 0 /\ options = 0
          /\ (ValidArguments /\ Ended) =>
               /\ Lines("Usage") = {}
               /\ \/ pipeline.made /\ pipeline.startCalls = 1
                  \/ ~pipeline.made /\ err = "pipeline")
  /\ [][pc = "rp_args" => (pc' = "rp_new" <=> ValidArguments)]_vars

C15_Witness ==
  /\ script = "realsense_preset" /\ pc = "exit"
  /\ argv = <<"realsense_preset.py", "max_range">>
  /\ pipeline.started /\ pipeline.startCalls = 1
  /\ options = 1

\* this step calls start() on the object that p names before and q after it
StartedIn(p, q) == q.startCalls > p.startCalls

\* C16: in every script no pipeline object has start() called on it more
\* than once, start() is never called on an object after stop() was invoked
\* on it, and every start (of a first attempt, a retry or a fallback) is
\* made on an object no start, wait_for_frames or stop was called on before.
C16_PipelineLifecycle ==
  /\ [](pipeline.startCalls <= 1 /\ pipe.startCalls <= 1)
  /\ [][/\ StartedIn(pipeline, pipeline') =>
             /\ pipeline'.made /\ pipeline'.startCalls = 1
             /\ pipeline'.stopCalls = 0 /\ pipeline'.waits = 0
        /\ StartedIn(pipe, pipe') =>
             /\ pipe'.made /\ pipe'.startCalls = 1
             /\ pipe'.stopCalls = 0 /\ pipe'.waits = 0
        /\ (pc = "ad_m3_start" /\ i > 1) => pipeline.cfg = i]_vars

C16_Witness ==
  /\ script = "direct_camera_access" /\ pc = "da2_wait"
  /\ Lines("Failed to get frames after multiple attempts") # {}
  /\ pipeline.startCalls = 1 /\ pipeline.stopCalls = 0 /\ pipeline.waits = 0

\* C17 (as stated): in photo1.py, a run in which resolving the pipeline
\* configuration raised and left no device reports 'Error resolving
\* pipeline' and goes on: it does not end before pipeline.start(config) was
\* called.
C17_ContinuesWithDefaultConfiguration ==
  (script = "photo1" /\ ~device /\ Lines("Error resolving pipeline") # {} /\ Ended) =>
    pipeline.startCalls = 1

\* C18 (as stated): camera_diagnostic.main prints 'Stream test PASSED' only
\* in runs where the pipeline started and at least one of the five frame
\* waits gave both a depth frame and a color frame.
C18_PassedOnlyWithBothFrames ==
  (script = "camera_diagnostic" /\ Lines("Stream test PASSED") # {}) =>
    /\ pipeline.started
    /\ Lines("Success! Received depth and color frames") # {}

\* the stream test of camera_diagnostic is over
StreamTestOver == script = "camera_diagnostic" /\ pc \in {"cd_complete", "exit"}

\* the bounds of direct_camera_access: at most max_tries waits on the
\* pipeline of approach 1, at most one on the pipeline of approach 2
DirectAccessBounded ==
  script = "direct_camera_access" =>
    /\ pipeline.waits <= max_tries
    /\ pc \in {"da2_start", "da2_wait"} => pipeline.waits = 0
    /\ pc = "da2_stop" => pipeline.waits = 1

\* C19 (as stated): direct_camera_access calls wait_for_frames at most 5
\* times in approach 1 and at most once in approach 2, and the stream test of
\* camera_diagnostic has called wait_for_frames exactly 5 times and stop once
\* whenever its pipeline started.
C19_Original ==
  /\ DirectAccessBounded
  /\ (StreamTestOver /\ pipeline.started) =>
       pipeline.waits = FrameCount /\ pipeline.stopCalls = 1

\* C19 (amended): provided every SDK call returns or raises,
\* direct_camera_access.main terminates, after at most 5 wait_for_frames
\* calls in approach 1 and at most one in approach 2; the stream test of
\* camera_diagnostic calls wait_for_frames exactly 5 times when its pipeline
\* started and the device-info read that follows the start returned, not at
\* all otherwise, and invokes stop exactly once whenever start was called.
C19_BoundedAcquisition ==
  /\ []DirectAccessBounded
  /\ [][(script = "direct_camera_access" /\ WaitStep) =>
          pc \in {"da_wait", "da2_wait"}]_vars
  /\ [](StreamTestOver =>
          /\ pipeline.waits =
               IF pipeline.started /\ Lines("Failed to start stream: get_info") = {}
               THEN FrameCount ELSE 0
          /\ pipeline.stopCalls <= 1
          /\ pipeline.startCalls = 1 => pipeline.stopCalls = 1)
  /\ (script = "direct_camera_access") ~> (pc = "exit")

C19_Witness ==
  /\ StreamTestOver
  /\ pipeline.started
  /\ Lines("Failed to start stream: get_info") # {}
  /\ pipeline.waits = 0 /\ pipeline.stopCalls = 1

\* the viewer loops of video_viewer_with_photo_saver and black_white
InViewerLoop == pc \in {"vv_wait", "vv_show", "bw_wait", "bw_show"}

\* C20: in the viewer loops of video_viewer_with_photo_saver.py and
\* black_white.py the key 's' (when the save raises no error) reports the
\* saved image and the loop goes on to its next wait, with the pipeline
\* untouched and still started; the loop is left only on the key 'q' or ESC
\* or with an error; and a run that has ended after entering the try of the
\* loop has invoked pipeline.stop() exactly once.
C20_ViewerLoop ==
  /\ [][/\ (pc \in {"vv_show", "bw_show"} /\ LowByte(key') = ord("s") /\ err' = "") =>
             /\ Reported("Image saved", i)
             /\ InViewerLoop'
             /\ pipeline' = pipeline /\ Active(pipeline')
        /\ (InViewerLoop /\ ~InViewerLoop') =>
             \/ err' # ""
             \/ pc \in {"vv_show", "bw_show"} /\ (LowByte(key') = ord("q") \/ key' = 27)]_vars
  /\ [](script \in {"video_viewer_with_photo_saver", "black_white"} =>
          /\ pipeline.stopCalls <= 1
          /\ InViewerLoop => Active(pipeline)
          /\ (Ended /\ pipeline.waits >= 1) => pipeline.stopCalls = 1)

C20_Witness ==
  /\ script = "black_white" /\ pc = "exit"
  /\ Lines("Image saved") # {}
  /\ key = ord("q")
  /\ pipeline.waits >= 2 /\ pipeline.stopCalls = 1

\* approach 1 of direct_camera_access received both frames and saved the
\* sample image within its max_tries waits
Approach1Worked == Lines("CONNECTION SUCCESSFUL") # {}

\* approach 2 of direct_camera_access started its pipeline and its single
\* wait_for_frames returned
Approach2Worked == Lines("Got frames!") # {}

\* C21 (as stated): direct_camera_access.main returns True exactly when
\* approach 1 received and saved a depth and color frame set or the frame
\* wait of approach 2 returned; approach 2 is attempted only when approach 1
\* did not return True; and 'All connection attempts failed' is printed
\* exactly when main returned False.
C21_ReturnsTrueIffAnApproachWorked ==
  script = "direct_camera_access" =>
    /\ pc \in {"da_returned", "exit"} =>
         /\ ret \in {"True", "False"}
         /\ ret = "True" <=> (Approach1Worked \/ Approach2Worked)
    /\ pc \in {"da2_new", "da2_start", "da2_wait", "da2_stop", "da2_except"} =>
         ret = "none"
    /\ pc = "exit" => (Lines("All connection attempts failed") # {} <=> ret = "False")
    /\ pc # "exit" => Lines("All connection attempts failed") = {}

\* the positions of a command in the list of the commands issued
Issued(command) == {k \in DOMAIN commands : commands[k].cmd = command}

\* C22: in usb_recovery.reset_usb_devices_windows the disable command is
\* followed by the enable command in the same run, whether subprocess.run
\* returned or raised for it: once disable was issued the very next command
\* is enable, nothing ends the run in between, each is issued at most once
\* and disable never comes after enable.
C22_DisableThenEnable ==
  /\ [](/\ Cardinality(Issued("disable")) <= 1
        /\ Cardinality(Issued("enable")) <= 1
        /\ \A d \in Issued("disable"), e \in Issued("enable") : e = d + 1
        /\ Issued("enable") # {} => Issued("disable") # {}
        /\ (Issued("disable") # {} /\ Issued("enable") = {}) => pc = "ur_enable")
  /\ (Issued("disable") # {}) ~> (Issued("enable") # {})

C22_Witness ==
  /\ script = "usb_recovery" /\ pc = "exit"
  /\ \E d \in Issued("disable") :
       /\ ~commands[d].ok
       /\ commands[d + 1].cmd = "enable"
  /\ Lines("USB reset procedure completed") # {}

\* the answer to the reset prompt equals 'yes' ignoring case
SaidYes == lower(choice) = <<"y", "e", "s">>

\* C23: usb_recovery.main issues the disable and enable commands only on
\* Windows and after an answer that equals 'yes' ignoring case (and then it
\* does enter the reset); on any other platform it has returned with the
\* notice and without any command; on any other answer it prints the skip
\* notice, issues no reset command and goes on to print the recommendations.
C23_ResetOnlyOnWindowsAndYes ==
  /\ [](script = "usb_recovery" =>
          /\ (Issued("disable") # {} \/ Issued("enable") # {}) =>
               system = "Windows" /\ SaidYes
          /\ system \notin {"", "Windows"} =>
               /\ pc = "exit"
               /\ commands = << >>
               /\ Lines("This tool currently only supports Windows.") # {}
          /\ Lines("Skipping USB reset.") # {} =>
               /\ ~SaidYes
               /\ Issued("disable") = {} /\ Issued("enable") = {}
               /\ pc = "ur_recommend" \/ Lines("RECOMMENDATIONS") # {})
  /\ [][/\ (pc = "ur_choice" /\ pc' # "ur_unhandled") =>
             IF SaidYes'
             THEN pc' = "ur_list"
             ELSE /\ Reported("Skipping USB reset.", 0)
                  /\ pc' = "ur_recommend" /\ commands' = commands
        /\ pc = "ur_recommend" => Reported("RECOMMENDATIONS", 0)]_vars

C23_Witness ==
  /\ script = "usb_recovery" /\ pc = "exit"
  /\ system = "Windows"
  /\ choice = <<"Y", "E", "S">>
  /\ Issued("disable") # {} /\ Issued("enable") # {}
  /\ Lines("RECOMMENDATIONS") # {}

\* message m is among the reports this step prints
PrintedNow(m) == \E k \in (Len(out) + 1)..Len(out') : out'[k].msg = m

\* C24: the call of realsense_preset.set_sensor_preset propagates no
\* exception (the run goes on to the finally clause with no error pending);
\* it returns True exactly when set_option was called and raised no error,
\* and set_option is called only for a sensor that reported support: for an
\* unsupported sensor the notice is printed, set_option is not called and
\* False is returned; main prints 'applied successfully' exactly when True
\* was returned, and 'Failed to apply preset' otherwise.
C24_PresetResult ==
  /\ [][pc = "rp_preset" =>
          /\ pc' = "rp_finally" /\ err' = err
          /\ ret' \in {"True", "False"}
          /\ options' \in {options, options + 1}
          /\ ret' = "True" <=>
               (options' = options + 1 /\ ~PrintedNow("Error setting sensor preset"))
          /\ PrintedNow("This sensor does not support visual presets") =>
               options' = options /\ ret' = "False"
          /\ PrintedNow("Preset applied successfully") <=> ret' = "True"
          /\ PrintedNow("Failed to apply preset") <=> ret' = "False"]_vars
  /\ [](script = "realsense_preset" =>
          /\ options <= 1
          /\ Lines("Preset applied successfully") # {} <=> ret = "True"
          /\ Lines("Failed to apply preset") # {} <=> ret = "False")

C24_Witness ==
  /\ script = "realsense_preset" /\ pc = "rp_finally"
  /\ ret = "False" /\ options = 1
  /\ Lines("Error setting sensor preset") # {}
  /\ Lines("Failed to apply preset") # {}
====
